---- MODULE Spec2Model ----
(***************************************************************************)
(* Model of pyvcontrol's session controller (vi_control.py): the process-  *)
(* wide lock, ViSerial.connect / disconnect / send / read, and ViControl's *)
(* initialization handshake and command execution, together with the      *)
(* access-mode relation (vi_access_mode.py), the command table             *)
(* (vi_command.py) and the telegram framer (vi_telegram.py).               *)
(***************************************************************************)
EXTENDS Integers, Sequences, FiniteSets, TLC

\* ------------------------------------------------------------------------
\* Bounds of the model
\* ------------------------------------------------------------------------
NumSessions == 2
NumLockSessions == 3
MaxPayloadLen == 2
MaxReadLen == 3
NumLiveSessions == 2

Sessions == 1..NumSessions
LockSessions == 1..NumLockSessions

\* ------------------------------------------------------------------------
\* Program constants
\* ------------------------------------------------------------------------
InitRetries == 10
MaxFailedReads == 10

ACKNOWLEDGE == <<6>>
NOT_INIT == <<5>>
ERROR == <<21>>
RESET_CMD == <<4>>
SYNC_CMD == <<22, 0, 0>>

\* Exceptions: the class raised and what it reports.
Err(type, what) == [type |-> type, what |-> what]
NoErr == Err("none", "")
AttributeError == Err("AttributeError", "NoneType")
RuntimeError == Err("RuntimeError", "release unlocked lock")
SerialException == Err("SerialException", "port not open")

\* ------------------------------------------------------------------------
\* Byte sequences (Python bytes / bytearray) as sequences of 0..255
\* ------------------------------------------------------------------------
Min(a, b) == IF a < b THEN a ELSE b
Max(a, b) == IF a > b THEN a ELSE b

\* Python slice b[lo:hi] for 0 <= lo, where hi < 0 counts from the end.
PySlice(b, lo, hi) ==
    LET h == IF hi < 0 THEN Max(Len(b) + hi, 0) ELSE Min(hi, Len(b))
    IN  IF lo >= h THEN <<>> ELSE SubSeq(b, lo + 1, h)

\* Python b[-1:]
PyLast(b) == IF Len(b) = 0 THEN <<>> ELSE <<b[Len(b)]>>

RECURSIVE SumSeq(_)
SumSeq(b) == IF b = <<>> THEN 0 ELSE Head(b) + SumSeq(Tail(b))

\* ------------------------------------------------------------------------
\* vi_access_mode.py
\* ------------------------------------------------------------------------
READ == "read"
WRITE == "write"
CALL == "call"
AccessModes == {READ, WRITE, CALL}

\* Variant of allows: every mode allows only itself.
allows_own_mode_only(self, other) == self = other

\* AccessMode.allows
allows(self, other) ==
    IF self = WRITE /\ other \in {READ, WRITE} THEN TRUE ELSE self = other

\* The table execute_command gates with.
allowed_access_mode ==
    [m \in AccessModes |->
        CASE m = READ -> {READ}
          [] m = WRITE -> {READ, WRITE}
          [] m = CALL -> {CALL}]

\* ------------------------------------------------------------------------
\* vi_command.py
\* ------------------------------------------------------------------------
ViCommand(name, a1, a2, value_bytes, unit, access_mode) ==
    [command_name |-> name, address |-> <<a1, a2>>, value_bytes |-> value_bytes,
     unit |-> unit, access_mode |-> access_mode]

\* COMMAND_SETS["WO1C"]
COMMAND_SET ==
    { ViCommand("Warmwassertemperatur", 1, 13, 2, "IS10", READ),
      ViCommand("Aussentemperatur", 1, 1, 2, "IS10", READ),
      ViCommand("VorlauftempSek", 1, 5, 2, "IS10", READ),
      ViCommand("RuecklauftempSek", 1, 6, 2, "IS10", READ),
      ViCommand("Sekundaerpumpe", 180, 33, 2, "IUNON", READ),
      ViCommand("FaktorEnergiebilanz", 22, 63, 1, "IUNON", READ),
      ViCommand("Heizwaerme", 22, 64, 4, "IUNON", READ),
      ViCommand("Heizenergie", 22, 96, 4, "IUNON", READ),
      ViCommand("WWwaerme", 22, 80, 4, "IUNON", READ),
      ViCommand("WWenergie", 22, 112, 4, "IUNON", READ),
      ViCommand("Verdichter", 180, 35, 4, "IUNON", READ),
      ViCommand("DruckSauggas", 180, 16, 3, "IS10", READ),
      ViCommand("DruckHeissgas", 180, 17, 3, "IS10", READ),
      ViCommand("TempSauggas", 180, 9, 3, "IS10", READ),
      ViCommand("TempHeissgas", 180, 10, 3, "IS10", READ),
      ViCommand("Anlagentyp", 0, 248, 4, "DT", READ),
      ViCommand("Betriebsmodus", 176, 0, 1, "BA", WRITE),
      ViCommand("WWeinmal", 176, 32, 1, "OO", WRITE),
      ViCommand("SolltempWarmwasser", 96, 0, 2, "IS10", WRITE),
      ViCommand("RaumSollTempParty", 32, 34, 2, "IS10", WRITE),
      ViCommand("Hysterese_Vorlauf_ein", 115, 4, 2, "IU10", WRITE),
      ViCommand("Hysterese_Vorlauf_aus", 115, 19, 2, "IU10", WRITE),
      ViCommand("Energiebilanz", 184, 0, 16, "F_E", CALL) }

NoCommand == ViCommand("", 0, 0, 0, "", READ)

\* ViCommand.as_bytearray
as_bytearray(vc) == vc.address \o <<vc.value_bytes>>

\* Variant of command_response_length: a write echoes the value like a read.
command_response_length_echo(vc, access_mode) == 3 + vc.value_bytes

\* ViCommand.response_length
command_response_length(vc, access_mode) ==
    IF access_mode = READ THEN 3 + vc.value_bytes
    ELSE IF access_mode = WRITE THEN 3
    ELSE 3 + vc.value_bytes

\* ViCommandSet.__getitem__ with a bytes key: the command whose address is
\* key[0:2]; KeyError when there is none.
HasAddress(key) == \E c \in COMMAND_SET : c.address = PySlice(key, 0, 2)

\* Variant of command_by_address: the address is not compared.
command_by_address_any(key) == CHOOSE c \in COMMAND_SET : TRUE

command_by_address(key) ==
    IF HasAddress(key)
    THEN CHOOSE c \in COMMAND_SET : c.address = PySlice(key, 0, 2)
    ELSE NoCommand

\* ViCommandSet.__getitem__ with a str key: the command of that name
HasName(name) == \E c \in COMMAND_SET : c.command_name = name
command_by_name(name) ==
    IF HasName(name) THEN CHOOSE c \in COMMAND_SET : c.command_name = name ELSE NoCommand

\* A key of ViCommandSet.__getitem__: a str or a bytearray
StrKey(name) == [is_str |-> TRUE, name |-> name, bytes |-> <<>>]
BytesKey(b) == [is_str |-> FALSE, name |-> "", bytes |-> b]

\* Variant of getitem: a bytes key is compared whole with the address.
getitem_whole_key(key) ==
    IF key.is_str
    THEN [err |-> IF HasName(key.name) THEN NoErr ELSE Err("KeyError", "No Command matching"),
          command |-> command_by_name(key.name)]
    ELSE IF \E c \in COMMAND_SET : c.address = key.bytes
         THEN [err |-> NoErr, command |-> CHOOSE c \in COMMAND_SET : c.address = key.bytes]
         ELSE [err |-> Err("KeyError", "No Command matching"), command |-> NoCommand]

\* ViCommandSet.__getitem__(key)
getitem(key) ==
    IF key.is_str
    THEN [err |-> IF HasName(key.name) THEN NoErr ELSE Err("KeyError", "No Command matching"),
          command |-> command_by_name(key.name)]
    ELSE [err |-> IF HasAddress(key.bytes) THEN NoErr ELSE Err("KeyError", "No Command matching"),
          command |-> command_by_address(key.bytes)]

\* ------------------------------------------------------------------------
\* vi_telegram.py
\* ------------------------------------------------------------------------
tStartByte == <<65>>
tTypes == [request |-> <<0>>, response |-> <<1>>, error |-> <<3>>]
tModes == [read |-> <<1>>, write |-> <<2>>, call |-> <<7>>]

\* Variant of checksum_byte: the start byte is not tested.
checksum_byte_unguarded(packet) ==
    IF Len(packet) = 0 THEN <<0>> ELSE <<SumSeq(Tail(packet)) % 256>>

\* viTelegram._checksum_byte
checksum_byte(packet) ==
    IF Len(packet) = 0 THEN <<0>>
    ELSE IF PySlice(packet, 0, 1) # tStartByte THEN <<0>>
    ELSE <<SumSeq(Tail(packet)) % 256>>

\* Variant of header: the data length leaves out the payload.
header_without_payload_length(vc, tType, tMode, payload) ==
    tStartByte \o <<2 + Len(as_bytearray(vc))>> \o tType \o tMode

\* viTelegram._header: start byte, data length, type, mode
header(vc, tType, tMode, payload) ==
    tStartByte \o <<2 + Len(as_bytearray(vc)) + Len(payload)>> \o tType \o tMode

\* viTelegram.__init__: the telegram's bytes (tType and tMode given as bytes)
ViTelegram(vc, tMode, tType, payload) ==
    LET b == header(vc, tType, tMode, payload) \o as_bytearray(vc) \o payload
    IN  b \o checksum_byte(b)

\* viTelegram.telegram_mode: the key of tModes whose value is the mode byte
HasMode(tMode) == \E k \in DOMAIN tModes : tModes[k] = tMode
telegram_mode(tMode) == CHOOSE k \in DOMAIN tModes : tModes[k] = tMode

\* viTelegram.response_length
response_length(vc, tMode) == 4 + command_response_length(vc, telegram_mode(tMode)) + 1

ChecksumError == Err("viTelegramException", "Checksum not valid")
StartbyteError == Err("viTelegramException", "Startbyte not found")
NoMatchError == Err("KeyError", "No Command matching")
StopIteration == Err("StopIteration", "telegram_mode")

\* Variant of from_bytes: the start byte is validated before the checksum.
from_bytes_startbyte_first(b) ==
    LET fail(e) == [err |-> e, vicmd |-> NoCommand, tType |-> <<>>, tMode |-> <<>>, payload |-> <<>>]
    IN  IF PySlice(b, 0, 1) # tStartByte THEN fail(StartbyteError)
        ELSE IF PyLast(b) # checksum_byte(PySlice(b, 0, -1)) THEN fail(ChecksumError)
        ELSE IF ~HasAddress(PySlice(b, 4, 6)) THEN fail(NoMatchError)
        ELSE [err |-> NoErr,
              vicmd |-> command_by_address(PySlice(b, 4, 6)),
              tType |-> PySlice(b, 2, 3),
              tMode |-> PySlice(b, 3, 4),
              payload |-> PySlice(b, 7, -1)]

\* Variant of from_bytes: checksum and start byte are not validated.
from_bytes_unvalidated(b) ==
    IF ~HasAddress(PySlice(b, 4, 6))
    THEN [err |-> NoMatchError, vicmd |-> NoCommand, tType |-> <<>>, tMode |-> <<>>, payload |-> <<>>]
    ELSE [err |-> NoErr,
          vicmd |-> command_by_address(PySlice(b, 4, 6)),
          tType |-> PySlice(b, 2, 3),
          tMode |-> PySlice(b, 3, 4),
          payload |-> PySlice(b, 7, -1)]

\* Variant of from_bytes: the start byte is not validated.
from_bytes_without_startbyte(b) ==
    LET fail(e) == [err |-> e, vicmd |-> NoCommand, tType |-> <<>>, tMode |-> <<>>, payload |-> <<>>]
    IN  IF PyLast(b) # checksum_byte(PySlice(b, 0, -1)) THEN fail(ChecksumError)
        ELSE IF ~HasAddress(PySlice(b, 4, 6)) THEN fail(NoMatchError)
        ELSE [err |-> NoErr,
              vicmd |-> command_by_address(PySlice(b, 4, 6)),
              tType |-> PySlice(b, 2, 3),
              tMode |-> PySlice(b, 3, 4),
              payload |-> PySlice(b, 7, -1)]

\* viTelegram.from_bytes
from_bytes(b) ==
    LET fail(e) == [err |-> e, vicmd |-> NoCommand, tType |-> <<>>, tMode |-> <<>>, payload |-> <<>>]
    IN  IF PyLast(b) # checksum_byte(PySlice(b, 0, -1)) THEN fail(ChecksumError)
        ELSE IF PySlice(b, 0, 1) # tStartByte THEN fail(StartbyteError)
        ELSE IF ~HasAddress(PySlice(b, 4, 6)) THEN fail(NoMatchError)
        ELSE [err |-> NoErr,
              vicmd |-> command_by_address(PySlice(b, 4, 6)),
              tType |-> PySlice(b, 2, 3),
              tMode |-> PySlice(b, 3, 4),
              payload |-> PySlice(b, 7, -1)]

\* ------------------------------------------------------------------------
\* vi_data.py
\* ------------------------------------------------------------------------
ViDataError(what) == Err("ViDataError", what)
OverflowError == Err("OverflowError", "int does not fit the bytes")
StructError == Err("struct.error", "unpack requires a buffer of 16 bytes")

\* Semantic values: a string, or a number num/den (den > 0).
Str(s) == [kind |-> "str", str |-> s, num |-> 0, den |-> 1]
Num(n, d) == [kind |-> "num", str |-> "", num |-> n, den |-> d]

\* The constructor's argument: none, bytes, or a semantic value.
NoArgs == [form |-> "default", raw |-> <<>>, val |-> Str("")]
Raw(b) == [form |-> "raw", raw |-> b, val |-> Str("")]
Value(v) == [form |-> "value", raw |-> <<>>, val |-> v]

\* ViDataBA.operating_modes (a dict: pairs in insertion order)
operating_modes ==
    << <<0, "OFF">>,
       <<1, "WW">>,
       <<2, "HEATING_WW">> >>

\* ViDataES.errorset
errorset ==
    << <<0, "Regelbetrieb (kein Fehler)">>,
       <<15, "Wartung (fuer Reset Codieradresse 24 auf 0 stellen)">>,
       <<16, "Kurzschluss Aussentemperatursensor">>,
       <<24, "Unterbrechung Aussentemperatursensor">>,
       <<32, "Kurzschluss Vorlauftemperatursensor">>,
       <<33, "Kurzschluss Ruecklauftemperatursensor">>,
       <<40, "Unterbrechung Aussentemperatursensor">>,
       <<41, "Unterbrechung Ruecklauftemperatursensor">>,
       <<48, "Kurzschluss Kesseltemperatursensor">>,
       <<56, "Unterbrechung Kesseltemperatursensor">>,
       <<64, "Kurzschluss Vorlauftemperatursensor M2">>,
       <<66, "Unterbrechung Vorlauftemperatursensor M2">>,
       <<80, "Kurzschluss Speichertemperatursensor">>,
       <<88, "Unterbrechung Speichertemperatursensor">>,
       <<146, "Solar: Kurzschluss Kollektortemperatursensor">>,
       <<147, "Solar: Kurzschluss Sensor S3">>,
       <<148, "Solar: Kurzschluss Speichertemperatursensor">>,
       <<154, "Solar: Unterbrechung Kollektortemperatursensor">>,
       <<155, "Solar: Unterbrechung Sensor S3">>,
       <<156, "Solar: Unterbrechung Speichertemperatursensor">>,
       <<158, "Solar: Zu geringer bzw. kein Volumenstrom oder Temperaturw?chter ausgeloest">>,
       <<159, "Solar: Fehlermeldung Solarteil (siehe Solarregler)">>,
       <<167, "Bedienteil defekt">>,
       <<176, "Kurzschluss Abgastemperatursensor">>,
       <<177, "Kommunikationsfehler Bedieneinheit">>,
       <<180, "Interner Fehler (Elektronik)">>,
       <<181, "Interner Fehler (Elektronik)">>,
       <<182, "Ungueltige Hardwarekennung (Elektronik)">>,
       <<183, "Interner Fehler (Kesselkodierstecker)">>,
       <<184, "Unterbrechung Abgastemperatursensor">>,
       <<185, "Interner Fehler (Dateneingabe wiederholen)">>,
       <<186, "Kommunikationsfehler Erweiterungssatz fuer Mischerkreis M2">>,
       <<188, "Kommunikationsfehler Fernbedienung Vitorol, Heizkreis M1">>,
       <<189, "Kommunikationsfehler Fernbedienung Vitorol, Heizkreis M2">>,
       <<190, "Falsche Codierung Fernbedienung Vitorol">>,
       <<193, "Externe Sicherheitseinrichtung (Kessel kuehlt aus)">>,
       <<194, "Kommunikationsfehler Solarregelung">>,
       <<197, "Kommunikationsfehler drehzahlgeregelte Heizkreispumpe, Heizkreis M1">>,
       <<198, "Kommunikationsfehler drehzahlgeregelte Heizkreispumpe, Heizkreis M2">>,
       <<199, "Falsche Codierung der Heizkreispumpe">>,
       <<201, "Stoermeldeeingang am Schaltmodul-V aktiv">>,
       <<205, "Kommunikationsfehler Vitocom 100 (KM-BUS)">>,
       <<206, "Kommunikationsfehler Schaltmodul-V">>,
       <<207, "Kommunikationsfehler LON Modul">>,
       <<209, "Brennerstoerung">>,
       <<212, "Sicherheitstemperaturbegrenzer hat ausgeloest oder Stoermeldemodul nicht richtig gesteckt">>,
       <<218, "Kurzschluss Raumtemperatursensor, Heizkreis M1">>,
       <<219, "Kurzschluss Raumtemperatursensor, Heizkreis M2">>,
       <<221, "Unterbrechung Raumtemperatursensor, Heizkreis M1">>,
       <<222, "Unterbrechung Raumtemperatursensor, Heizkreis M2">>,
       <<228, "Fehler Versorgungsspannung">>,
       <<229, "Interner Fehler (Ionisationselektrode)">>,
       <<230, "Abgas- / Zuluftsystem verstopft">>,
       <<240, "Interner Fehler (Regelung tauschen)">>,
       <<241, "Abgastemperaturbegrenzer ausgeloest">>,
       <<242, "Temperaturbegrenzer ausgeloest">>,
       <<243, "Flammensigal beim Brennerstart bereits vorhanden">>,
       <<244, "Flammensigal nicht vorhanden">>,
       <<247, "Differenzdrucksensor defekt">>,
       <<248, "Brennstoffventil schliesst zu spaet">>,
       <<249, "Geblaesedrehzahl beim Brennerstart zu niedrig">>,
       <<250, "Geblaesestillstand nicht erreicht">>,
       <<253, "Fehler Gasfeuerungsautomat">>,
       <<254, "Starkes Stoerfeld (EMV) in der Naehe oder Elektronik defekt">>,
       <<255, "Starkes Stoerfeld (EMV) in der Naehe oder interner Fehler">> >>

\* ViDataDT.device_types
device_types ==
    << <<8344, "V200KW2, Protokoll: KW2">>,
       <<8275, "GWG_VBEM, Protokoll: GWG">>,
       <<8395, "VScotHO1, Protokoll: P300">>,
       <<8340, "V200KW1, Protokoll: KW2">>,
       <<8351, "V200KO1B, Protokoll: P300, KW2">>,
       <<8269, "V200WO1C, Protokoll: P300">>,
       <<8267, "Vitocal 333G, Protokoll: P300">>,
       <<8376, "V333MW1, Protokoll: ">>,
       <<8352, "V100GC1, Protokoll: ">>,
       <<8386, "VDensHO1, Protokoll: ">>,
       <<8356, "V200GW1, Protokoll: ">>,
       <<8392, "VPlusHO1, Protokoll: ">>,
       <<8262, "V200WO1,VBC700, Protokoll: ">>,
       <<8263, "V200WO1,VBC700, Protokoll: ">>,
       <<8265, "V200WO1,VBC700, Protokoll: ">>,
       <<8242, "VBC550, Protokoll: ">>,
       <<8243, "VBC550, Protokoll: ">>,
       <<0, "unknown">> >>

\* ViDataRT.returnstatus
returnstatus ==
    << <<0, "0">>,
       <<1, "1">>,
       <<3, "2">>,
       <<170, "Not OK">> >>

\* ViDataOO.OnOff
OnOff ==
    << <<0, "Off">>,
       <<1, "Manual">>,
       <<2, "On">> >>

\* dict: keys, values, d[k], and the first key whose value is v
Keys(d) == { d[i][1] : i \in DOMAIN d }
Values(d) == { d[i][2] : i \in DOMAIN d }
Get(d, k) == d[CHOOSE i \in DOMAIN d : d[i][1] = k][2]
KeyOf(d, v) ==
    d[CHOOSE i \in DOMAIN d : d[i][2] = v /\ \A j \in 1..(i - 1) : d[j][2] # v][1]

\* int.from_bytes(b, byteorder, signed=...)
RECURSIVE IntLittle(_)
IntLittle(b) == IF b = <<>> THEN 0 ELSE Head(b) + 256 * IntLittle(Tail(b))

RECURSIVE IntBig(_)
IntBig(b) == IF b = <<>> THEN 0 ELSE 256 * IntBig(SubSeq(b, 1, Len(b) - 1)) + b[Len(b)]

int_from_bytes(b, byteorder, signed) ==
    LET unsigned(x) == IF byteorder = "little" THEN IntLittle(x) ELSE IntBig(x)
        top == IF byteorder = "little" THEN b[Len(b)] ELSE b[1]
    IN  IF signed /\ Len(b) > 0 /\ top >= 128
        THEN -unsigned([i \in 1..Len(b) |-> 255 - b[i]]) - 1
        ELSE unsigned(b)

\* int.to_bytes(length, byteorder, signed=...): OverflowError unless x fits
Fits(x, length, signed) ==
    IF signed THEN -(2^(8 * length - 1)) <= x /\ x < 2^(8 * length - 1)
    ELSE 0 <= x /\ x < 2^(8 * length)

RECURSIVE LittleBytes(_, _)
LittleBytes(u, length) ==
    IF length = 0 THEN <<>> ELSE <<u % 256>> \o LittleBytes(u \div 256, length - 1)

Reverse(b) == [i \in 1..Len(b) |-> b[Len(b) + 1 - i]]

int_to_bytes(x, length, byteorder, signed) ==
    LET le == LittleBytes(IF x < 0 THEN x + 2^(8 * length) ELSE x, length)
    IN  IF byteorder = "little" THEN le ELSE Reverse(le)

\* int(x) of the number n/d: truncation toward zero
Trunc(n, d) == IF n >= 0 THEN n \div d ELSE -((-n) \div d)

\* The outcome of a constructor: the exception raised, or the object's bytes.
Created(err, data) == [err |-> err, data |-> data]

\* The kinds with a lookup table: table, byte order, bytes written for a value.
EnumKinds == {"BA", "DT", "ES", "RT", "OO"}
EnumTable(datatype) ==
    CASE datatype = "BA" -> operating_modes
      [] datatype = "DT" -> device_types
      [] datatype = "ES" -> errorset
      [] datatype = "RT" -> returnstatus
      [] datatype = "OO" -> OnOff
EnumOrder(datatype) == IF datatype = "BA" THEN "little" ELSE "big"
EnumLength(datatype) == IF datatype = "DT" THEN 2 ELSE 1

\* The fixed-point and integer kinds: factor, signedness of encode and decode.
NumKinds == {"IS10", "IU10", "IU3600", "IUNON"}
NumFactor(datatype) ==
    CASE datatype = "IS10" -> 10
      [] datatype = "IU10" -> 10
      [] datatype = "IU3600" -> 3600
      [] datatype = "IUNON" -> 1
NumSignedEncode(datatype) == datatype = "IS10"
NumSignedDecode(datatype) == datatype \in {"IS10", "IU3600"}

\* ViData.create's table of kinds
DataTypes == EnumKinds \cup NumKinds \cup {"F_E"}

\* The default argument of each kind's constructor.
DefaultRaw(datatype) ==
    IF datatype \in NumKinds THEN <<0, 0>>
    ELSE IF datatype = "F_E" THEN [i \in 1..16 |-> 0]
    ELSE <<0>>

\* _create_from_raw of the kind
create_from_raw(datatype, value) ==
    IF datatype \in EnumKinds
    THEN IF int_from_bytes(value, EnumOrder(datatype), FALSE) \in Keys(EnumTable(datatype))
         THEN Created(NoErr, value)
         ELSE Created(ViDataError("Unknown code"), <<>>)
    ELSE IF datatype = "F_E"
    THEN IF Len(value) = 16 THEN Created(NoErr, value) ELSE Created(StructError, <<>>)
    ELSE Created(NoErr, value)

\* _create_from_value of the kind (numbers only for the numeric kinds);
\* ViDataES does not override the empty method of ViData
create_from_value(datatype, value) ==
    IF datatype = "ES" THEN Created(NoErr, <<>>)
    ELSE IF datatype \in EnumKinds
    THEN IF value.kind = "str" /\ value.str \in Values(EnumTable(datatype))
         THEN Created(NoErr, int_to_bytes(KeyOf(EnumTable(datatype), value.str),
                                          EnumLength(datatype), EnumOrder(datatype), FALSE))
         ELSE Created(ViDataError("Unknown value"), <<>>)
    ELSE IF datatype = "F_E"
    THEN Created(ViDataError("ViDataEnergy can only be created from bytes."), <<>>)
    ELSE LET x == Trunc(value.num * NumFactor(datatype), value.den)
         IN  IF Fits(x, 2, NumSignedEncode(datatype))
             THEN Created(NoErr, int_to_bytes(x, 2, "little", NumSignedEncode(datatype)))
             ELSE Created(OverflowError, <<>>)

\* ViData.__init__ / ViData.create(datatype, *args)
create(datatype, arg) ==
    IF datatype \notin DataTypes THEN Created(ViDataError("Unit not known"), <<>>)
    ELSE IF arg.form = "default" THEN create_from_raw(datatype, DefaultRaw(datatype))
    ELSE IF arg.form = "raw" THEN create_from_raw(datatype, arg.raw)
    ELSE create_from_value(datatype, arg.val)

MILLENIUM == 2000

\* unpack("<4B6H", value): four bytes, six little-endian 16-bit words
unpack(value) ==
    [i \in 1..10 |-> IF i <= 4 THEN value[i] ELSE value[2 * i - 5] + 256 * value[2 * i - 4]]

\* Variant of ViDataEnergy_value: the cooling figures are read from the last two words.
ViDataEnergy_value_own_cooling(data) ==
    LET raw_data == unpack(data)
    IN  [day |-> raw_data[2], week |-> raw_data[4], year |-> MILLENIUM + raw_data[3],
         heating_energy |-> Num(raw_data[5], 10),
         heating_electrical_energy |-> Num(raw_data[6], 10),
         water_energy |-> Num(raw_data[7], 10),
         water_electrical_energy |-> Num(raw_data[8], 10),
         cooling_energy |-> Num(raw_data[9], 10),
         cooling_electrical_energy |-> Num(raw_data[10], 10),
         total_energy |-> Num(raw_data[5] + raw_data[7] + raw_data[9], 10),
         total_electrical_energy |-> Num(raw_data[6] + raw_data[8] + raw_data[10], 10)]

\* ViDataEnergy._create_from_raw and .value: the figures are raw * 0.1
ViDataEnergy_value(data) ==
    LET raw_data == unpack(data)
    IN  [day |-> raw_data[2], week |-> raw_data[4], year |-> MILLENIUM + raw_data[3],
         heating_energy |-> Num(raw_data[5], 10),
         heating_electrical_energy |-> Num(raw_data[6], 10),
         water_energy |-> Num(raw_data[7], 10),
         water_electrical_energy |-> Num(raw_data[8], 10),
         cooling_energy |-> Num(raw_data[5], 10),
         cooling_electrical_energy |-> Num(raw_data[6], 10),
         total_energy |-> Num(raw_data[5] + raw_data[7] + raw_data[5], 10),
         total_electrical_energy |-> Num(raw_data[6] + raw_data[8] + raw_data[6], 10)]

\* The property value of the kind, for the object's bytes.
value(datatype, data) ==
    IF datatype \in EnumKinds
    THEN Str(Get(EnumTable(datatype), int_from_bytes(data, EnumOrder(datatype), FALSE)))
    ELSE IF datatype = "F_E" THEN ViDataEnergy_value(data)
    ELSE Num(int_from_bytes(data, "little", NumSignedDecode(datatype)), NumFactor(datatype))

\* ------------------------------------------------------------------------
\* vi_control.py: ViSerial.read
\* ------------------------------------------------------------------------
\* stream: what the successive calls of serial.read() return (<<>> is a
\* read timeout); once the stream is used up every further call times out.
\* Variant of ReadLoop: a byte received resets the count of failed reads.
RECURSIVE ReadLoop_consecutive(_, _, _, _, _)
ReadLoop_consecutive(length, stream, total_read_bytes, failed_count, calls) ==
    IF ~(failed_count < MaxFailedReads)
    THEN [data |-> total_read_bytes, calls |-> calls]
    ELSE LET read_byte == IF calls + 1 <= Len(stream) THEN stream[calls + 1] ELSE <<>>
             total == total_read_bytes \o read_byte
         IN  IF Len(total) >= length
             THEN [data |-> total, calls |-> calls + 1]
             ELSE ReadLoop_consecutive(length, stream, total,
                                       IF Len(read_byte) = 0 THEN failed_count + 1 ELSE 0,
                                       calls + 1)

RECURSIVE ReadLoop(_, _, _, _, _)
ReadLoop(length, stream, total_read_bytes, failed_count, calls) ==
    IF ~(failed_count < MaxFailedReads)
    THEN [data |-> total_read_bytes, calls |-> calls]
    ELSE LET read_byte == IF calls + 1 <= Len(stream) THEN stream[calls + 1] ELSE <<>>
             total == total_read_bytes \o read_byte
         IN  IF Len(total) >= length
             THEN [data |-> total, calls |-> calls + 1]
             ELSE ReadLoop(length, stream, total,
                           IF Len(read_byte) = 0 THEN failed_count + 1 ELSE failed_count,
                           calls + 1)

\* Variant of read: a timeout of the port is not retried.
read_without_retry(length, stream) ==
    [data |-> IF Len(stream) >= 1 THEN stream[1] ELSE <<>>, calls |-> 1]

read(length, stream) == ReadLoop(length, stream, <<>>, 0, 0)

VARIABLES
    lock,            \* ViSerial._viessmann_lock: 0 = free, s = acquired by session s
    pc,              \* position of each session
    ctor,            \* connect() was called from ViControl.__init__
    connected,       \* ViSerial._connected
    serial,          \* ViSerial._serial: "closed", "open" or "none" (None)
    is_initialized,  \* ViControl.is_initialized
    ii,              \* loop index of initialize_communication
    ackSeen,         \* a read of the running handshake returned ACKNOWLEDGE
    start,           \* outcome of the session's latest connect()
    last,            \* the operation step taken last, and what it did
    reads,           \* transcript: what each vs.read(1) of the running handshake returned
    written,         \* transcript: the control codes the running handshake wrote
    serial_reads     \* transcript: the serial.read() calls each vs.read(1) of it made

vars == <<lock, pc, ctor, connected, serial, is_initialized, ii, ackSeen, start, last,
          reads, written, serial_reads>>

\* The handshake's transcript (kept by SpecHandshake only).
transcript == <<reads, written, serial_reads>>

Sess == DOMAIN pc

\* s: session, op: operation, err: exception raised to the caller,
\* wr: packets written to the serial port, rd: calls of serial.read(),
\* n: loop iterations run, ret: value returned, arg: the operation's arguments,
\* io: the serial.write and vs.read calls completed, in order (execute_command)
EventOf(s, op, arg, err, wr, rd, n, ret) ==
    [s |-> s, op |-> op, arg |-> arg, err |-> err, wr |-> wr, rd |-> rd, n |-> n, ret |-> ret,
     io |-> <<>>]

Event(s, op, err, wr, rd, n, ret) == EventOf(s, op, <<>>, err, wr, rd, n, ret)

\* no value returned (an exception was raised, or the step returns nothing)
NoRet == [unit |-> "none", payload |-> <<>>]

InitOn(S) ==
    /\ lock = 0
    /\ pc = [s \in S |-> "none"]
    /\ ctor = [s \in S |-> FALSE]
    /\ connected = [s \in S |-> FALSE]
    /\ serial = [s \in S |-> "closed"]
    /\ is_initialized = [s \in S |-> FALSE]
    /\ ii = [s \in S |-> 0]
    /\ ackSeen = [s \in S |-> FALSE]
    /\ start = [s \in S |-> "none"]
    /\ last = Event(0, "none", NoErr, <<>>, 0, 0, NoRet)
    /\ reads = <<>>
    /\ written = <<>>
    /\ serial_reads = <<>>

Init == InitOn(Sessions)

ctlVars == <<is_initialized, ii, ackSeen>>

\* ------------------------------------------------------------------------
\* vi_control.py: ViControl.__init__, ViSerial.connect
\* ------------------------------------------------------------------------
\* ViControl(): creates the ViSerial with an unopened serial.Serial() and
\* calls connect(), which blocks in Lock.acquire(timeout=10).
ViControl_init(s) ==
    /\ pc[s] = "none"
    /\ pc' = [pc EXCEPT ![s] = "acquire"]
    /\ ctor' = [ctor EXCEPT ![s] = TRUE]
    /\ last' = Event(s, "new", NoErr, <<>>, 0, 0, NoRet)
    /\ UNCHANGED <<lock, connected, serial, start, ctlVars>>

\* Variant of connect: the lock is acquired again on a connected session.
connect_again(s) ==
    /\ pc[s] = "live"
    /\ pc' = [pc EXCEPT ![s] = "acquire"]
    /\ ctor' = [ctor EXCEPT ![s] = FALSE]
    /\ last' = Event(s, "connect_wait", NoErr, <<>>, 0, 0, NoRet)
    /\ UNCHANGED <<lock, connected, serial, start, ctlVars>>

\* vs.connect() on a constructed session.
connect(s) ==
    /\ pc[s] = "live"
    /\ IF connected[s]
       THEN /\ last' = Event(s, "connect", NoErr, <<>>, 0, 0, NoRet)
            /\ UNCHANGED <<pc, ctor>>
       ELSE /\ pc' = [pc EXCEPT ![s] = "acquire"]
            /\ ctor' = [ctor EXCEPT ![s] = FALSE]
            /\ last' = Event(s, "connect_wait", NoErr, <<>>, 0, 0, NoRet)
    /\ UNCHANGED <<lock, connected, serial, start, ctlVars>>

\* Lock.acquire(timeout=10) returns True.
acquire(s) ==
    /\ pc[s] = "acquire"
    /\ lock = 0
    /\ lock' = s
    /\ pc' = [pc EXCEPT ![s] = "open"]
    /\ last' = Event(s, "acquire", NoErr, <<>>, 0, 0, NoRet)
    /\ UNCHANGED <<ctor, connected, serial, start, ctlVars>>

\* Variant of acquire_timeout: Lock.acquire waits without a timeout.
acquire_timeout_never(s) ==
    /\ FALSE
    /\ UNCHANGED vars

\* Lock.acquire(timeout=10) returns False: the lock was held throughout.
\* connect() logs an error and returns; the constructor completes.
acquire_timeout(s) ==
    /\ pc[s] = "acquire"
    /\ lock # 0
    /\ pc' = [pc EXCEPT ![s] = "live"]
    /\ start' = [start EXCEPT ![s] = "timeout"]
    /\ is_initialized' = [is_initialized EXCEPT ![s] = IF ctor[s] THEN FALSE ELSE @]
    /\ ctor' = [ctor EXCEPT ![s] = FALSE]
    /\ last' = Event(s, "connect", NoErr, <<>>, 0, 0, NoRet)
    /\ UNCHANGED <<lock, connected, serial, ii, ackSeen>>

\* The try block: configure and open the serial port.
open_ok(s) ==
    /\ pc[s] = "open"
    /\ serial[s] = "closed"
    /\ serial' = [serial EXCEPT ![s] = "open"]
    /\ connected' = [connected EXCEPT ![s] = TRUE]
    /\ pc' = [pc EXCEPT ![s] = "live"]
    /\ start' = [start EXCEPT ![s] = "connected"]
    /\ is_initialized' = [is_initialized EXCEPT ![s] = IF ctor[s] THEN FALSE ELSE @]
    /\ ctor' = [ctor EXCEPT ![s] = FALSE]
    /\ last' = Event(s, "connect", NoErr, <<>>, 0, 0, NoRet)
    /\ UNCHANGED <<lock, ii, ackSeen>>

\* Variant of open_fail: the except branch does not release the lock.
open_fail_keeps_lock(s) ==
    /\ pc[s] = "open"
    /\ start' = [start EXCEPT ![s] = "openfail"]
    /\ connected' = [connected EXCEPT ![s] = FALSE]
    /\ pc' = [pc EXCEPT ![s] = "live"]
    /\ is_initialized' = [is_initialized EXCEPT ![s] = IF ctor[s] THEN FALSE ELSE @]
    /\ last' = Event(s, "connect", NoErr, <<>>, 0, 0, NoRet)
    /\ ctor' = [ctor EXCEPT ![s] = FALSE]
    /\ UNCHANGED <<lock, serial, ii, ackSeen>>

\* The except branch: serial.open() raised (or _serial is None): release the
\* lock, _connected = False.  Lock.release() of an unlocked lock raises
\* RuntimeError, which leaves connect() and, in the constructor, ViControl().
open_fail(s) ==
    /\ pc[s] = "open"
    /\ start' = [start EXCEPT ![s] = "openfail"]
    /\ IF lock = 0
       THEN /\ pc' = [pc EXCEPT ![s] = IF ctor[s] THEN "failed" ELSE "live"]
            /\ last' = Event(s, "connect", RuntimeError, <<>>, 0, 0, NoRet)
            /\ UNCHANGED <<lock, connected, is_initialized>>
       ELSE /\ lock' = 0
            /\ connected' = [connected EXCEPT ![s] = FALSE]
            /\ pc' = [pc EXCEPT ![s] = "live"]
            /\ is_initialized' = [is_initialized EXCEPT ![s] = IF ctor[s] THEN FALSE ELSE @]
            /\ last' = Event(s, "connect", NoErr, <<>>, 0, 0, NoRet)
    /\ ctor' = [ctor EXCEPT ![s] = FALSE]
    /\ UNCHANGED <<serial, ii, ackSeen>>

\* ------------------------------------------------------------------------
\* vi_control.py: ViSerial.disconnect, ViControl.__del__
\* ------------------------------------------------------------------------
\* The exception disconnect() raises in the current state, if any.
disconnect_err(s) ==
    IF serial[s] = "none" THEN AttributeError
    ELSE IF lock = 0 THEN RuntimeError
    ELSE NoErr

\* _serial.close(); _serial = None; lock.release(); _connected = False
disconnect_effect(s) ==
    IF serial[s] = "none"
    THEN UNCHANGED <<serial, lock, connected>>
    ELSE /\ serial' = [serial EXCEPT ![s] = "none"]
         /\ IF lock = 0
            THEN UNCHANGED <<lock, connected>>
            ELSE /\ lock' = 0
                 /\ connected' = [connected EXCEPT ![s] = FALSE]

disconnect(s) ==
    /\ pc[s] = "live"
    /\ disconnect_effect(s)
    /\ last' = Event(s, "disconnect", disconnect_err(s), <<>>, 0, 0, NoRet)
    /\ UNCHANGED <<pc, ctor, start, ctlVars>>

\* __del__ runs when the object is collected; an exception raised in it is
\* ignored.
ViControl_del(s) ==
    /\ pc[s] \in {"live", "failed"}
    /\ disconnect_effect(s)
    /\ pc' = [pc EXCEPT ![s] = "dead"]
    /\ last' = Event(s, "del", NoErr, <<>>, 0, 0, NoRet)
    /\ UNCHANGED <<ctor, start, ctlVars>>

\* ------------------------------------------------------------------------
\* vi_control.py: ViSerial.send, and serial.Serial on a port that is not open
\* ------------------------------------------------------------------------
\* The exception serial.write() / serial.read() raises: _serial is None after
\* disconnect(), and a serial.Serial that is not open refuses to read or write.
port_err(ser) ==
    IF ser = "none" THEN AttributeError
    ELSE IF ser = "closed" THEN SerialException
    ELSE NoErr

\* ViSerial.send: the packets written
send(conn, packet) == IF conn THEN <<packet>> ELSE <<>>

\* ------------------------------------------------------------------------
\* vi_control.py: ViControl.initialize_communication
\* ------------------------------------------------------------------------
InitError == Err("ViControlError", "Could not initialize communication")

\* What the successive serial.read() calls of one vs.read(1) return.
HandshakeStreams ==
    { <<ACKNOWLEDGE>>, <<NOT_INIT>>, <<ERROR>>, <<RESET_CMD>>, <<>>, <<<<>>, ACKNOWLEDGE>> }

\* Variant of handshake_reply: a reset is sent whatever was read.
handshake_reply_reset_only(read_byte) == RESET_CMD

\* The control code written for a byte that is not ACKNOWLEDGE.
handshake_reply(read_byte) ==
    IF read_byte = NOT_INIT THEN SYNC_CMD
    ELSE IF read_byte = ERROR THEN RESET_CMD
    ELSE RESET_CMD

\* Entry of initialize_communication: is_initialized = False, ii = 0.
initialize_communication(s) ==
    /\ pc[s] = "live"
    /\ pc' = [pc EXCEPT ![s] = "init"]
    /\ is_initialized' = [is_initialized EXCEPT ![s] = FALSE]
    /\ ii' = [ii EXCEPT ![s] = 0]
    /\ ackSeen' = [ackSeen EXCEPT ![s] = FALSE]
    /\ last' = Event(s, "init_start", NoErr, <<>>, 0, 0, NoRet)
    /\ UNCHANGED <<lock, ctor, connected, serial, start>>

\* Variant of handshake_ready: NOT_INIT is taken for success too.
handshake_ready_on_not_init(read_byte) == read_byte \in {ACKNOWLEDGE, NOT_INIT}

\* The loop's test of the byte read: ACKNOWLEDGE ends the handshake.
handshake_ready(read_byte) == read_byte = ACKNOWLEDGE

\* One iteration of the loop; the last one also leaves the method.
handshake_step(s, stream) ==
    /\ pc[s] = "init"
    /\ IF port_err(serial[s]) # NoErr
       THEN \* serial.read() raises out of initialize_communication
            /\ pc' = [pc EXCEPT ![s] = "live"]
            /\ ii' = [ii EXCEPT ![s] = 0]
            /\ last' = Event(s, "init", port_err(serial[s]), <<>>, 1, ii[s] + 1, NoRet)
            /\ UNCHANGED <<is_initialized, ackSeen>>
       ELSE LET r == read(1, stream)
                wr == send(connected[s], handshake_reply(r.data))
                init == handshake_ready(r.data) \/ is_initialized[s]
            IN  /\ ackSeen' = [ackSeen EXCEPT ![s] = @ \/ r.data = ACKNOWLEDGE]
                /\ IF handshake_ready(r.data)
                   THEN /\ is_initialized' = [is_initialized EXCEPT ![s] = TRUE]
                        /\ pc' = [pc EXCEPT ![s] = "live"]
                        /\ ii' = [ii EXCEPT ![s] = 0]
                        /\ last' = Event(s, "init", NoErr, <<>>, r.calls, ii[s] + 1, TRUE)
                   ELSE IF ii[s] + 1 < InitRetries
                   THEN /\ ii' = [ii EXCEPT ![s] = ii[s] + 1]
                        /\ last' = Event(s, "init_step", NoErr, wr, r.calls, ii[s] + 1, NoRet)
                        /\ UNCHANGED <<pc, is_initialized>>
                   ELSE /\ pc' = [pc EXCEPT ![s] = "live"]
                        /\ ii' = [ii EXCEPT ![s] = 0]
                        /\ last' = Event(s, "init", IF init THEN NoErr ELSE InitError,
                                         wr, r.calls, ii[s] + 1, IF init THEN TRUE ELSE NoRet)
                        /\ UNCHANGED is_initialized
    /\ UNCHANGED <<lock, ctor, connected, serial, start>>

\* ------------------------------------------------------------------------
\* vi_control.py: ViControl.execute_command
\* ------------------------------------------------------------------------
AccessError == Err("ViControlError", "allows only")
AckError == Err("ViControlError", "Expected acknowledge byte")
\* Variant of AckErrorOf: the message does not name the byte received.
AckErrorOf_without_byte(ack) ==
    [type |-> "ViControlError", what |-> "Expected acknowledge byte", received |-> <<>>]

\* the message names the byte received
AckErrorOf(ack) == [type |-> AckError.type, what |-> AckError.what, received |-> ack]
ErrorResponse == Err("ViControlError", "command returned an error")

Result(err, wr, rd, ret, io) == [err |-> err, wr |-> wr, rd |-> rd, ret |-> ret, io |-> io]

\* ViData.create(unit, payload): the value object of the unit over the bytes
ViData(unit, payload) == [unit |-> unit, payload |-> payload]

\* A completed serial.write(packet) / vs.read(length) returning data.
Write(packet) == [op |-> "write", data |-> packet]
Read(length, data) == [op |-> "read", length |-> length, data |-> data]

\* vs.send(packet): the serial.write calls made
send_io(conn, packet) == IF conn THEN <<Write(packet)>> ELSE <<>>

\* Variant of acknowledge: the response is not acknowledged.
acknowledge_skipped(conn) == <<>>

\* vs.send(CtrlCode.ACKNOWLEDGE) after a good response
acknowledge(conn) == send_io(conn, ACKNOWLEDGE)

\* execute_command after the access check, on a session whose _connected is
\* conn and whose _serial is ser: send the telegram, read the ACK, read and
\* parse the response, acknowledge, decode.  ackStream and respStream are
\* what serial.read() delivers.
exchange(conn, ser, vc, access_mode, payload, ackStream, respStream) ==
    LET vt == ViTelegram(vc, tModes[access_mode], tTypes.request, payload)
    IN  IF conn /\ port_err(ser) # NoErr
        THEN Result(port_err(ser), <<>>, 0, NoRet, <<>>)
        ELSE IF port_err(ser) # NoErr
        THEN Result(port_err(ser), send(conn, vt), 1, NoRet, send_io(conn, vt))
        ELSE
        LET ack == read(1, ackStream)
            io1 == send_io(conn, vt) \o <<Read(1, ack.data)>>
        IN  IF ack.data # ACKNOWLEDGE
            THEN Result(AckErrorOf(ack.data), send(conn, vt), ack.calls, NoRet, io1)
            ELSE
            LET n == response_length(vc, tModes[access_mode])
                vr == read(n, respStream)
                rt == from_bytes(vr.data)
                rd == ack.calls + vr.calls
                io2 == io1 \o <<Read(n, vr.data)>>
            IN  IF rt.err # NoErr
                THEN Result(rt.err, send(conn, vt), rd, NoRet, io2)
                ELSE IF ~HasMode(rt.tMode)
                THEN Result(StopIteration, send(conn, vt), rd, NoRet, io2)
                ELSE IF rt.tType = tTypes.error
                THEN Result(ErrorResponse, send(conn, vt), rd, NoRet, io2)
                ELSE IF create(rt.vicmd.unit, Raw(rt.payload)).err # NoErr
                THEN Result(create(rt.vicmd.unit, Raw(rt.payload)).err,
                            send(conn, vt) \o send(conn, ACKNOWLEDGE), rd, NoRet,
                            io2 \o acknowledge(conn))
                ELSE Result(NoErr, send(conn, vt) \o send(conn, ACKNOWLEDGE), rd,
                            ViData(rt.vicmd.unit, rt.payload),
                            io2 \o acknowledge(conn))

\* Variant of execute: the access check is missing.
execute_ungated(conn, ser, vc, access_mode, payload, ackStream, respStream) ==
    exchange(conn, ser, vc, access_mode, payload, ackStream, respStream)

\* execute_command
execute(conn, ser, vc, access_mode, payload, ackStream, respStream) ==
    IF access_mode \notin allowed_access_mode[vc.access_mode]
    THEN Result(AccessError, <<>>, 0, NoRet, <<>>)
    ELSE exchange(conn, ser, vc, access_mode, payload, ackStream, respStream)

\* Inputs of execute_command -------------------------------------------------
Chunks(b) == [i \in 1..Len(b) |-> <<b[i]>>]

\* One command of each access mode.
ExecCommands ==
    { c \in COMMAND_SET :
        c.command_name \in {"Warmwassertemperatur", "SolltempWarmwasser", "Energiebilanz"} }

\* The payload of a request: none for a read, the encoded value for a write,
\* the argument count and arguments for a call.
RequestPayload(access_mode) ==
    IF access_mode = READ THEN <<>>
    ELSE IF access_mode = WRITE THEN <<94, 1>>
    ELSE <<2, 1, 0>>

ValueBytes(n) == [i \in 1..n |-> IF i = 1 THEN 101 ELSE 0]

\* The device's answer to a request, as it should be.
GoodResponse(vc, access_mode) ==
    ViTelegram(vc, tModes[access_mode], tTypes.response,
               IF access_mode = WRITE THEN <<>> ELSE ValueBytes(vc.value_bytes))

\* What the device may deliver after the ACK byte.
Responses(vc, access_mode) ==
    LET good == GoodResponse(vc, access_mode)
        n == Len(good)
    IN  { good,
          [good EXCEPT ![n] = (good[n] + 1) % 256],
          [i \in 1..n |-> IF i = 1 THEN 64 ELSE IF i = n THEN 0 ELSE good[i]],
          ViTelegram(vc, tModes[access_mode], tTypes.error,
                     IF access_mode = WRITE THEN <<>> ELSE ValueBytes(vc.value_bytes)),
          SubSeq(good, 1, n - 2),
          <<>> }

AckStreams == { <<ACKNOWLEDGE>>, <<ERROR>>, <<>> }

\* The requests and device answers tried: <<command, mode, ack stream, response>>;
\* the device's bytes are varied only where execute_command reads them.
ExecInputs ==
    UNION { IF ~allows(vc.access_mode, access_mode)
            THEN { <<vc, access_mode, <<>>, <<>>>> }
            ELSE { <<vc, access_mode, ackStream, <<>>>> : ackStream \in AckStreams \ {<<ACKNOWLEDGE>>} }
                 \cup { <<vc, access_mode, <<ACKNOWLEDGE>>, resp>> : resp \in Responses(vc, access_mode) }
          : vc \in ExecCommands, access_mode \in AccessModes }

SerialStates == {"closed", "open", "none"}

\* execute on every input and port state, computed once.
ExecTable ==
    [conn \in BOOLEAN, ser \in SerialStates, x \in ExecInputs |->
        execute(conn, ser, x[1], x[2], RequestPayload(x[2]), x[3], Chunks(x[4]))]

\* Variant of execute_command: a failed execution clears is_initialized.
execute_command_clears_ready(s, x) ==
    /\ pc[s] = "live"
    /\ LET r == ExecTable[connected[s], serial[s], x]
       IN  /\ last' = [EventOf(s, "execute", x, r.err, r.wr, r.rd, 0, r.ret) EXCEPT !.io = r.io]
           /\ is_initialized' = [is_initialized EXCEPT ![s] = @ /\ r.err = NoErr]
    /\ UNCHANGED <<lock, pc, ctor, connected, serial, start, ii, ackSeen>>

execute_command(s, x) ==
    /\ pc[s] = "live"
    /\ LET r == ExecTable[connected[s], serial[s], x]
       IN  last' = [EventOf(s, "execute", x, r.err, r.wr, r.rd, 0, r.ret) EXCEPT !.io = r.io]
    /\ UNCHANGED <<lock, pc, ctor, connected, serial, start, ctlVars>>

\* ------------------------------------------------------------------------
\* vi_control.py: execute_read_command, execute_write_command,
\* execute_function_call
\* ------------------------------------------------------------------------
\* min_value and max_value of the command: <<>> where the table gives none
ValueBounds(vc) == IF vc.command_name = "SolltempWarmwasser" THEN <<10, 60>> ELSE <<>>

execute_read_command(conn, ser, command_name, ackStream, respStream) ==
    LET vc == getitem(StrKey(command_name))
    IN  IF vc.err # NoErr THEN Result(vc.err, <<>>, 0, NoRet, <<>>)
        ELSE execute(conn, ser, vc.command, READ, <<>>, ackStream, respStream)

\* Variant of execute_write_command: a value the codec rejects is sent as an
\* empty payload.
execute_write_command_lenient(conn, ser, command_name, val, ackStream, respStream) ==
    LET vc == getitem(StrKey(command_name))
    IN  IF vc.err # NoErr THEN Result(vc.err, <<>>, 0, NoRet, <<>>)
        ELSE execute(conn, ser, vc.command, WRITE, create(vc.command.unit, Value(val)).data,
                     ackStream, respStream)

execute_write_command(conn, ser, command_name, val, ackStream, respStream) ==
    LET vc == getitem(StrKey(command_name))
        vd == create(vc.command.unit, Value(val))
    IN  IF vc.err # NoErr THEN Result(vc.err, <<>>, 0, NoRet, <<>>)
        ELSE IF vd.err # NoErr THEN Result(vd.err, <<>>, 0, NoRet, <<>>)
        ELSE execute(conn, ser, vc.command, WRITE, vd.data, ackStream, respStream)

execute_function_call(conn, ser, command_name, function_args, ackStream, respStream) ==
    LET payload == <<Len(function_args)>> \o function_args
        vc == getitem(StrKey(command_name))
    IN  IF vc.err # NoErr THEN Result(vc.err, <<>>, 0, NoRet, <<>>)
        ELSE execute(conn, ser, vc.command, CALL, payload, ackStream, respStream)

\* A call of one of the three methods.
Request(kind, command_name, val, function_args) ==
    [kind |-> kind, command_name |-> command_name, val |-> val, function_args |-> function_args]

Requests ==
    { Request("read", name, Num(0, 1), <<>>) : name \in {"Warmwassertemperatur", "Betriebsmodus", "foo"} }
    \cup { Request("write", name, Num(n, 1), <<>>) :
             name \in {"SolltempWarmwasser", "Warmwassertemperatur", "foo"},
             n \in {35, 95, 5, 4000} }
    \cup { Request("write", "Betriebsmodus", Str(v), <<>>) : v \in {"WW", "foobar"} }
    \cup { Request("write", "Hysterese_Vorlauf_ein", Num(n, 1), <<>>) : n \in {2, -1} }
    \cup { Request("call", name, Num(0, 1), <<2, 1>>) : name \in {"Energiebilanz", "foo"} }

\* The mode a method asks for.
RequestMode(req) ==
    IF req.kind = "read" THEN READ ELSE IF req.kind = "write" THEN WRITE ELSE CALL

\* Answers of the device that are well-formed frames but not the answer to
\* the request: the response to another command of the same length, and a
\* response cut short after a byte that equals the checksum of the bytes
\* before it (07 + 01 + 01 + 01 + 0d + 02 = 19 hex).
ForeignResponse == GoodResponse(command_by_name("Sekundaerpumpe"), READ)
CutResponse ==
    SubSeq(ViTelegram(command_by_name("Warmwassertemperatur"), tModes[READ], tTypes.response,
                      <<25, 0>>), 1, 8)

\* The calls and device answers tried: <<request, ack stream, response>>.
RequestInputs ==
    UNION { IF ~HasName(req.command_name)
            THEN { <<req, <<>>, <<>>>> }
            ELSE { <<req, <<>>, <<>>>>, <<req, <<ERROR>>, <<>>>>, <<req, <<ACKNOWLEDGE>>, <<>>>>,
                   <<req, <<ACKNOWLEDGE>>,
                     GoodResponse(command_by_name(req.command_name), RequestMode(req))>> }
          : req \in Requests }
    \cup { <<Request("read", "Warmwassertemperatur", Num(0, 1), <<>>), <<ACKNOWLEDGE>>, resp>> :
             resp \in {ForeignResponse, CutResponse} }

execute_request(conn, ser, x) ==
    IF x[1].kind = "read"
    THEN execute_read_command(conn, ser, x[1].command_name, x[2], Chunks(x[3]))
    ELSE IF x[1].kind = "write"
    THEN execute_write_command(conn, ser, x[1].command_name, x[1].val, x[2], Chunks(x[3]))
    ELSE execute_function_call(conn, ser, x[1].command_name, x[1].function_args, x[2], Chunks(x[3]))

\* The three methods on every input and port state, computed once.
RequestTable ==
    [conn \in BOOLEAN, ser \in SerialStates, x \in RequestInputs |-> execute_request(conn, ser, x)]

request(s, x) ==
    /\ pc[s] = "live"
    /\ LET r == RequestTable[connected[s], serial[s], x]
       IN  last' = [EventOf(s, "request", x, r.err, r.wr, r.rd, 0, r.ret) EXCEPT !.io = r.io]
    /\ UNCHANGED <<lock, pc, ctor, connected, serial, start, ctlVars>>

\* ------------------------------------------------------------------------
\* Specifications
\* ------------------------------------------------------------------------
\* The ViControl operations touch only their own session's is_initialized
\* and the port; they are exercised on the sessions of ControlSessions, with
\* every session competing for the lock.
ControlSessions == {1}

Next ==
    \/ \E s \in Sess : ViControl_init(s) /\ UNCHANGED transcript
    \/ \E s \in Sess : connect(s) /\ UNCHANGED transcript
    \/ \E s \in Sess : acquire(s) /\ UNCHANGED transcript
    \/ \E s \in Sess : acquire_timeout(s) /\ UNCHANGED transcript
    \/ \E s \in Sess : open_ok(s) /\ UNCHANGED transcript
    \/ \E s \in Sess : open_fail(s) /\ UNCHANGED transcript
    \/ \E s \in Sess : disconnect(s) /\ UNCHANGED transcript
    \/ \E s \in Sess : ViControl_del(s) /\ UNCHANGED transcript
    \/ \E s \in ControlSessions : initialize_communication(s) /\ UNCHANGED transcript
    \/ \E s \in ControlSessions, stream \in HandshakeStreams :
          handshake_step(s, stream) /\ UNCHANGED transcript
    \/ \E s \in ControlSessions, x \in ExecInputs : execute_command(s, x) /\ UNCHANGED transcript

Spec == Init /\ [][Next]_vars

\* Only the operations that touch the lock and the serial port's state.
LockNext ==
    \/ \E s \in Sess : ViControl_init(s) /\ UNCHANGED transcript
    \/ \E s \in Sess : connect(s) /\ UNCHANGED transcript
    \/ \E s \in Sess : acquire(s) /\ UNCHANGED transcript
    \/ \E s \in Sess : acquire_timeout(s) /\ UNCHANGED transcript
    \/ \E s \in Sess : open_ok(s) /\ UNCHANGED transcript
    \/ \E s \in Sess : open_fail(s) /\ UNCHANGED transcript
    \/ \E s \in Sess : disconnect(s) /\ UNCHANGED transcript
    \/ \E s \in Sess : ViControl_del(s) /\ UNCHANGED transcript

InitLock == InitOn(LockSessions)
SpecLock == InitLock /\ [][LockNext]_vars

\* One session and the three request methods, in every state of the session.
RequestNext ==
    \/ ViControl_init(1) /\ UNCHANGED transcript
    \/ connect(1) /\ UNCHANGED transcript
    \/ acquire(1) /\ UNCHANGED transcript
    \/ open_ok(1) /\ UNCHANGED transcript
    \/ open_fail(1) /\ UNCHANGED transcript
    \/ disconnect(1) /\ UNCHANGED transcript
    \/ ViControl_del(1) /\ UNCHANGED transcript
    \/ initialize_communication(1) /\ UNCHANGED transcript
    \/ \E stream \in HandshakeStreams : handshake_step(1, stream) /\ UNCHANGED transcript
    \/ \E x \in RequestInputs : request(1, x) /\ UNCHANGED transcript

InitRequest == InitOn({1})
SpecRequest == InitRequest /\ [][RequestNext]_vars

\* The lock and the port again, with the progress the code guarantees:
\* Lock.acquire(timeout=10) returns within its timeout, with the lock or
\* without it, and the try block that opens the port runs to its end.
LiveSessions == 1..NumLiveSessions
InitLive == InitOn(LiveSessions)
Fairness ==
    \A s \in LiveSessions :
        /\ WF_vars((acquire(s) \/ acquire_timeout(s)) /\ UNCHANGED transcript)
        /\ WF_vars((open_ok(s) \/ open_fail(s)) /\ UNCHANGED transcript)
SpecLive == InitLive /\ [][LockNext]_vars /\ Fairness

\* The telegram framer alone: telegrams are built for every command, mode,
\* type and payload, then parsed back intact or damaged; checksums and
\* response lengths are computed.
PayloadBytes == {0, 1, 65, 255}
Payloads == UNION { [1..n -> PayloadBytes] : n \in 0..MaxPayloadLen }
Packets == UNION { [1..n -> PayloadBytes] : n \in 0..(MaxPayloadLen + 1) } \cup { <<66, 65>> }

\* A function applied to arg, raising err or returning ret.
Applied(op, arg, err, ret) ==
    [EventOf(0, op, arg, err, <<>>, 0, 0, NoRet) EXCEPT !.ret = ret]

\* The arguments drawn: a command, a mode, a type and a payload.
TelegramInputs ==
    { Applied("input", <<vc, access_mode, tType, payload>>, NoErr, NoRet) :
        vc \in COMMAND_SET, access_mode \in AccessModes, tType \in DOMAIN tTypes,
        payload \in Payloads }

\* viTelegram(vc, tMode, tType, payload)
new_telegram ==
    /\ last.op = "input"
    /\ last' = Applied("telegram", last.arg, NoErr,
                       ViTelegram(last.arg[1], tModes[last.arg[2]], tTypes[last.arg[3]],
                                  last.arg[4]))
    /\ UNCHANGED <<lock, pc, ctor, connected, serial, start, ctlVars, transcript>>

\* What may arrive in place of the telegram f.
Damaged(f) ==
    LET n == Len(f)
    IN  { f,
          [f EXCEPT ![n] = (@ + 1) % 256],
          [i \in 1..n |-> IF i = 1 THEN 64 ELSE IF i = n THEN 0 ELSE f[i]],
          [f EXCEPT ![1] = 64],
          SubSeq(f, 1, n - 1),
          <<>> }

\* The bytes that may be handed to from_bytes: the telegram built last, or a
\* damaged copy of it.
Received == IF last.op = "telegram" THEN Damaged(last.ret) ELSE {}

\* viTelegram.from_bytes(b)
parse_telegram(b) ==
    /\ b \in Received
    /\ last' = Applied("from_bytes", <<b>> \o last.arg, from_bytes(b).err, from_bytes(b))
    /\ UNCHANGED <<lock, pc, ctor, connected, serial, start, ctlVars, transcript>>

\* viTelegram.from_bytes(packet) on bytes that are no telegram
parse_packet(packet) ==
    /\ last.op = "input"
    /\ last' = Applied("from_bytes_packet", <<packet>>, from_bytes(packet).err, from_bytes(packet))
    /\ UNCHANGED <<lock, pc, ctor, connected, serial, start, ctlVars, transcript>>

\* viTelegram._checksum_byte(packet)
checksum(packet) ==
    /\ last.op = "input"
    /\ last' = Applied("checksum", <<packet>>, NoErr, checksum_byte(packet))
    /\ UNCHANGED <<lock, pc, ctor, connected, serial, start, ctlVars, transcript>>

\* viTelegram(vc, tMode).response_length
telegram_response_length ==
    /\ last.op = "input"
    /\ last' = Applied("response_length", <<last.arg[1], last.arg[2]>>, NoErr,
                       response_length(last.arg[1], tModes[last.arg[2]]))
    /\ UNCHANGED <<lock, pc, ctor, connected, serial, start, ctlVars, transcript>>

TelegramNext ==
    \/ new_telegram
    \/ \E b \in Received : parse_telegram(b)
    \/ \E packet \in Packets : parse_packet(packet)
    \/ \E packet \in Packets : checksum(packet)
    \/ telegram_response_length

InitTelegram ==
    /\ lock = 0
    /\ pc = <<"none">>
    /\ ctor = <<FALSE>>
    /\ connected = <<FALSE>>
    /\ serial = <<"closed">>
    /\ is_initialized = <<FALSE>>
    /\ ii = <<0>>
    /\ ackSeen = <<FALSE>>
    /\ start = <<"none">>
    /\ last \in TelegramInputs
    /\ reads = <<>>
    /\ written = <<>>
    /\ serial_reads = <<>>

SpecTelegram == InitTelegram /\ [][TelegramNext]_vars

\* The registry and the codecs alone: a key is looked up; a value object of
\* a kind is created from nothing, from bytes or from a value, and read back.
LookupKeys ==
    { StrKey(c.command_name) : c \in COMMAND_SET }
    \cup { StrKey("foo"), StrKey("") }
    \cup { BytesKey(c.address) : c \in COMMAND_SET }
    \cup { BytesKey(c.address \o <<b>>) : c \in COMMAND_SET, b \in {0, 2} }
    \cup { BytesKey(<<c.address[1]>>) : c \in COMMAND_SET }
    \cup { BytesKey(<<241, 0>>), BytesKey(<<248, 0>>), BytesKey(<<>>), BytesKey(<<241, 0, 2>>) }

EnumRaws ==
    { <<>>, <<0>>, <<1>>, <<2>>, <<3>>, <<15>>, <<102>>, <<170>>, <<255>>,
      <<0, 0>>, <<0, 2>>, <<2, 0>>, <<32, 77>>, <<102, 102>>,
      <<32, 77, 0, 0>>, <<0, 0, 32, 77>> }
EnumValues ==
    { Str(v) : v \in UNION { Values(EnumTable(k)) : k \in EnumKinds } \cup {"foo", "foobar"} }
    \cup { Num(1, 1) }
NumRaws ==
    { <<>>, <<1>>, <<0, 0>>, <<101, 0>>, <<158, 255>>, <<159, 1>>, <<96, 129>>,
      <<255, 255>>, <<101, 0, 1>>, <<0, 0, 128>>, <<1, 0, 0, 0>>, <<159, 1, 0, 0>> }
NumValues ==
    { Num(0, 1), Num(1, 1), Num(35, 1), Num(415, 1), Num(10, 1), Num(18, 1),
      Num(1015, 100), Num(-9856, 1000), Num(-5, 100), Num(47, 10), Num(91, 10),
      Num(92, 10), Num(183, 10), Num(32767, 10), Num(-32768, 10), Num(65535, 10),
      Num(4000, 1), Num(-1, 1), Num(70000, 1) }
EnergyBytes == {2, 22}
EnergyWords == { <<0, 0>>, <<146, 3>>, <<255, 255>> }
EnergyTail == { <<0, 0, 0, 0>>, <<255, 255, 0, 0>>, <<0, 0, 255, 255>>, <<255, 255, 255, 255>> }
EnergyPayloads ==
    { <<b0, b1, b2, b3>> \o w0 \o w1 \o w2 \o w3 \o t :
        b0 \in EnergyBytes, b1 \in EnergyBytes, b2 \in EnergyBytes, b3 \in EnergyBytes,
        w0 \in EnergyWords, w1 \in EnergyWords, w2 \in EnergyWords, w3 \in EnergyWords,
        t \in EnergyTail }
    \cup { <<2, 2, 22, 9, 146, 3, 170, 0, 153, 0, 45, 0, 0, 0, 0, 0>> }

CreateArgs(datatype) ==
    {NoArgs} \cup
    ( IF datatype \in EnumKinds
      THEN { Raw(b) : b \in EnumRaws } \cup { Value(v) : v \in EnumValues }
      ELSE IF datatype \in NumKinds
      THEN { Raw(b) : b \in NumRaws } \cup { Value(v) : v \in NumValues }
      ELSE IF datatype = "F_E"
      THEN { Raw(b) : b \in EnergyPayloads } \cup { Raw(<<2, 2, 22>>), Value(Num(12, 10)) }
      ELSE { Raw(<<0>>), Value(Num(1, 1)), Value(Str("OFF")) } )

DataInputs ==
    { Applied("key", <<key>>, NoErr, NoRet) : key \in LookupKeys }
    \cup UNION { { Applied("data", <<datatype, arg>>, NoErr, NoRet) : arg \in CreateArgs(datatype) } :
                 datatype \in DataTypes \cup {"CT", ""} }

\* COMMAND_SETS["WO1C"][key]
lookup ==
    /\ last.op = "key"
    /\ last' = Applied("getitem", last.arg, getitem(last.arg[1]).err, getitem(last.arg[1]).command)
    /\ UNCHANGED <<lock, pc, ctor, connected, serial, start, ctlVars, transcript>>

\* ViData.create(datatype, *args)
create_data ==
    /\ last.op = "data"
    /\ last' = Applied("create", last.arg, create(last.arg[1], last.arg[2]).err,
                       create(last.arg[1], last.arg[2]).data)
    /\ UNCHANGED <<lock, pc, ctor, connected, serial, start, ctlVars, transcript>>

\* .value of the object created
data_value ==
    /\ last.op = "create"
    /\ last.err = NoErr
    /\ last' = Applied("value", last.arg \o <<last.ret>>, NoErr, value(last.arg[1], last.ret))
    /\ UNCHANGED <<lock, pc, ctor, connected, serial, start, ctlVars, transcript>>

DataNext ==
    \/ lookup
    \/ create_data
    \/ data_value

InitData ==
    /\ lock = 0
    /\ pc = <<"none">>
    /\ ctor = <<FALSE>>
    /\ connected = <<FALSE>>
    /\ serial = <<"closed">>
    /\ is_initialized = <<FALSE>>
    /\ ii = <<0>>
    /\ ackSeen = <<FALSE>>
    /\ start = <<"none">>
    /\ last \in DataInputs
    /\ reads = <<>>
    /\ written = <<>>
    /\ serial_reads = <<>>

SpecData == InitData /\ [][DataNext]_vars

\* ViSerial.read alone: a length and what the port delivers call by call,
\* the byte of call i being i, or nothing on a timeout.
MaxStreamLen == MaxReadLen + MaxFailedReads - 1
SerialStreams ==
    { [i \in 1..MaxStreamLen |-> IF i \in S THEN <<i>> ELSE <<>>] : S \in SUBSET (1..MaxStreamLen) }
ReadInputs ==
    { Applied("read_input", <<length, stream>>, NoErr, NoRet) :
        length \in 1..MaxReadLen, stream \in SerialStreams }

\* self.vs.read(length)
serial_read ==
    /\ last.op = "read_input"
    /\ last' = [Applied("read", last.arg, NoErr, read(last.arg[1], last.arg[2]).data)
                  EXCEPT !.rd = read(last.arg[1], last.arg[2]).calls]
    /\ UNCHANGED <<lock, pc, ctor, connected, serial, start, ctlVars, transcript>>

ReadNext == serial_read

InitRead ==
    /\ lock = 1
    /\ pc = <<"live">>
    /\ ctor = <<FALSE>>
    /\ connected = <<TRUE>>
    /\ serial = <<"open">>
    /\ is_initialized = <<FALSE>>
    /\ ii = <<0>>
    /\ ackSeen = <<FALSE>>
    /\ start = <<"connected">>
    /\ last \in ReadInputs
    /\ reads = <<>>
    /\ written = <<>>
    /\ serial_reads = <<>>

SpecRead == InitRead /\ [][ReadNext]_vars

\* The handshake alone, on one connected session, with its transcript: every
\* sequence of bytes and read timeouts the device can deliver to the loop.
InitHandshake ==
    /\ lock = 1
    /\ pc = <<"live">>
    /\ ctor = <<FALSE>>
    /\ connected = <<TRUE>>
    /\ serial = <<"open">>
    /\ is_initialized = <<FALSE>>
    /\ ii = <<0>>
    /\ ackSeen = <<FALSE>>
    /\ start = <<"connected">>
    /\ last = Event(1, "connect", NoErr, <<>>, 0, 0, NoRet)
    /\ reads = <<>>
    /\ written = <<>>
    /\ serial_reads = <<>>

HandshakeNext ==
    \/ initialize_communication(1) /\ reads' = <<>> /\ written' = <<>> /\ serial_reads' = <<>>
    \/ \E stream \in HandshakeStreams :
          /\ handshake_step(1, stream)
          /\ reads' = Append(reads, read(1, stream).data)
          /\ written' = written \o last'.wr
          /\ serial_reads' = Append(serial_reads, read(1, stream).calls)

SpecHandshake == InitHandshake /\ [][HandshakeNext]_vars

\* ------------------------------------------------------------------------
\* Properties
\* ------------------------------------------------------------------------
\* The session has the transport open.
Connected(s) == connected[s] /\ serial[s] = "open"

\* The session's latest connect() ended without a connection.
StartFailed(s) == start[s] \in {"timeout", "openfail"}

\* The step taken last was connect() returning to (or raising at) its caller.
ConnectReturned(s) == last.s = s /\ last.op = "connect"

\* The step taken last was an operation of ViControl on session s.
ControlOps == {"init_start", "init_step", "init", "execute"}

\* C1: mutual exclusion - at most one session at a time holds the lock and
\* has the transport open.
C1_MutualExclusion ==
    \A s, t \in Sess : (Connected(s) /\ Connected(t)) => s = t

\* C2: when opening the transport fails after the lock was acquired, the
\* lock is free afterwards and the session is not connected.
C2_OpenFailReleasesLock ==
    \A s \in Sess :
        (ConnectReturned(s) /\ start[s] = "openfail") => (lock = 0 /\ ~connected[s])

C2_Witness ==
    /\ last.op = "connect"
    /\ start[last.s] = "openfail"
    /\ last.err = NoErr
    /\ lock = 0
    /\ ~connected[last.s]

\* C3: when session start fails (the transport cannot be opened or the lock
\* is not acquired in time) an error is raised and the session is never
\* entered: no handshake and no command execution happens on it.
C3_FailedStartRaises ==
    \A s \in Sess :
        StartFailed(s) =>
            /\ ConnectReturned(s) => last.err # NoErr
            /\ pc[s] \notin {"live", "init"}
            /\ last.s = s => last.op \notin ControlOps

\* C4: when the lock is held for the whole acquisition timeout, session
\* start fails with a lock-timeout error, and the failing session never
\* touches the transport (no open, no read, no write).
C4_LockTimeoutRaises ==
    \A s \in Sess :
        start[s] = "timeout" =>
            /\ ConnectReturned(s) => last.err # NoErr
            /\ last.s = s => (last.wr = <<>> /\ last.rd = 0)
            /\ serial[s] # "open"

\* C5: a session whose lock acquisition timed out leaves the lock unchanged:
\* neither its disconnect() nor its teardown releases the lock.
C5_TimedOutNeverReleases ==
    [][\A s \in Sess :
          (start[s] = "timeout" /\ (disconnect(s) \/ ViControl_del(s))) => lock' = lock]_vars

\* C6: whichever way a session that acquired the lock ends - teardown,
\* handshake exhaustion or an exception of a command execution - it ends
\* CLOSED: it no longer holds the lock, its transport is closed and it is
\* not connected.
SessionEnded(s) ==
    /\ last.s = s
    /\ \/ last.op = "del"
       \/ last.op = "init" /\ last.err # NoErr
       \/ last.op = "execute" /\ last.err # NoErr

C6_EndsClosed ==
    \A s \in Sess :
        (start[s] = "connected" /\ SessionEnded(s)) =>
            (lock # s /\ serial[s] # "open" /\ ~connected[s])

\* C7: a command execution whose requested access mode the command's access
\* mode does not allow fails with the access error before any byte is
\* written to or read from the transport.
C7_ForbiddenAccessNoIO ==
    (last.op = "execute" /\ ~allows(last.arg[1].access_mode, last.arg[2])) =>
        (last.err = AccessError /\ last.wr = <<>> /\ last.rd = 0)

C7_Witness ==
    /\ last.op = "execute"
    /\ Connected(last.s)
    /\ last.arg[1].access_mode = READ
    /\ last.arg[2] = WRITE
    /\ last.err = AccessError
    /\ last.wr = <<>>

\* C8: the access relation is exactly READ -> {READ}, WRITE -> {READ, WRITE},
\* CALL -> {CALL}, on all nine pairs, and the gate of execute_command agrees
\* with AccessMode.allows on them.
AccessRelation(command_mode, requested) ==
    \/ command_mode = READ /\ requested = READ
    \/ command_mode = WRITE /\ requested \in {READ, WRITE}
    \/ command_mode = CALL /\ requested = CALL

C8_AccessRelation ==
    last.op = "execute" =>
        LET command_mode == last.arg[1].access_mode
            requested == last.arg[2]
        IN  /\ (last.err # AccessError) = AccessRelation(command_mode, requested)
            /\ allows(command_mode, requested) = AccessRelation(command_mode, requested)

C8_Witness ==
    /\ last.op = "execute"
    /\ last.arg[1].access_mode = WRITE
    /\ last.arg[2] = READ
    /\ last.err = NoErr
    /\ allows(WRITE, READ)

\* C9: a request telegram is written to the transport only when the session
\* is READY (its handshake has succeeded).
C9_TelegramOnlyWhenReady ==
    (last.op = "execute" /\ last.wr # <<>>) => is_initialized[last.s]

RECURSIVE CodesFor(_)
CodesFor(rs) ==
    IF rs = <<>> THEN <<>>
    ELSE (IF Head(rs) = ACKNOWLEDGE THEN <<>>
          ELSE IF Head(rs) = NOT_INIT THEN <<SYNC_CMD>>
          ELSE <<RESET_CMD>>) \o CodesFor(Tail(rs))

HandshakeEnded == last.op = "init" /\ last.s = 1

Copies(n, x) == [i \in 1..n |-> x]

Executed ==
    /\ last.op = "execute"
    /\ allows(last.arg[1].access_mode, last.arg[2])
    /\ Connected(last.s)

\* The request telegram of the last execute_command.
RequestOf(x) == ViTelegram(x[1], tModes[x[2]], tTypes.request, RequestPayload(x[2]))

\* What vs.read(1) returned after the request / what the response read returned.
AckOf(x) == read(1, x[3]).data
ResponseOf(x) == read(response_length(x[1], tModes[x[2]]), Chunks(x[4])).data

\* C12: a successful execute_command wrote the request telegram, read 1 byte
\* (ACKNOWLEDGE), read response_length bytes and wrote one ACKNOWLEDGE, in
\* this order and nothing else; a value is returned only after that ACK.
C12_ExecuteOrder ==
    /\ (last.op = "execute" /\ last.err = NoErr) =>
          /\ Len(last.io) = 4
          /\ last.io[1] = Write(RequestOf(last.arg))
          /\ last.io[2] = Read(1, ACKNOWLEDGE)
          /\ last.io[3].op = "read"
          /\ last.io[3].length = 4 + command_response_length(last.arg[1], last.arg[2]) + 1
          /\ last.io[4] = Write(ACKNOWLEDGE)
          /\ last.wr = <<RequestOf(last.arg), ACKNOWLEDGE>>
          /\ last.ret # NoRet
    /\ (last.op = "execute" /\ last.ret # NoRet) =>
          (last.err = NoErr /\ last.io[Len(last.io)] = Write(ACKNOWLEDGE))

\* A read of Warmwassertemperatur succeeded: 41050001010d0216 was written,
\* 1 and then 10 bytes were read, 06 was written.
C12_Witness ==
    /\ last.op = "execute" /\ last.err = NoErr
    /\ last.arg[1].command_name = "Warmwassertemperatur"
    /\ last.io = << Write(<<65, 5, 0, 1, 1, 13, 2, 22>>),
                    Read(1, <<6>>),
                    Read(10, <<65, 7, 1, 1, 1, 13, 2, 101, 0, 126>>),
                    Write(<<6>>) >>
    /\ last.ret = ViData("IS10", <<101, 0>>)

\* C13: when the byte read after the request is not ACKNOWLEDGE (or nothing
\* is received) execute_command fails with the error naming that byte; the
\* response is not read and no ACKNOWLEDGE is written.
C13_NoAckFails ==
    (Executed /\ AckOf(last.arg) # ACKNOWLEDGE) =>
        /\ last.err.type = "ViControlError"
        /\ last.err.what = "Expected acknowledge byte"
        /\ last.err.received = AckOf(last.arg)
        /\ last.io = <<Write(RequestOf(last.arg)), Read(1, AckOf(last.arg))>>
        /\ last.wr = <<RequestOf(last.arg)>>
        /\ last.ret = NoRet

\* The device answered the request with ERROR (15).
C13_Witness ==
    /\ Executed
    /\ AckOf(last.arg) = ERROR
    /\ last.err.type = "ViControlError"
    /\ last.err.received = ERROR

\* The response read fails validation or is an error frame.
ResponseRejected(x) ==
    LET rt == from_bytes(ResponseOf(x))
    IN  \/ PyLast(ResponseOf(x)) # checksum_byte(PySlice(ResponseOf(x), 0, -1))
        \/ PySlice(ResponseOf(x), 0, 1) # tStartByte
        \/ (rt.err = NoErr /\ rt.tType = tTypes.error)

\* C14: a response with a wrong checksum, a wrong start byte or transaction
\* type ERROR makes execute_command raise; after the response read there is
\* no further transport operation: no ACKNOWLEDGE, no second request.
C14_BadResponseNotRetried ==
    (Executed /\ AckOf(last.arg) = ACKNOWLEDGE /\ ResponseRejected(last.arg)) =>
        /\ last.err # NoErr
        /\ last.ret = NoRet
        /\ last.wr = <<RequestOf(last.arg)>>
        /\ Len(last.io) = 3
        /\ last.io[3] = Read(response_length(last.arg[1], tModes[last.arg[2]]),
                              ResponseOf(last.arg))

\* A response with a valid checksum field but a wrong start byte was rejected.
C14_Witness ==
    /\ Executed
    /\ AckOf(last.arg) = ACKNOWLEDGE
    /\ Len(ResponseOf(last.arg)) > 0
    /\ PySlice(ResponseOf(last.arg), 0, 1) # tStartByte
    /\ PyLast(ResponseOf(last.arg)) = checksum_byte(PySlice(ResponseOf(last.arg), 0, -1))
    /\ last.err = StartbyteError

\* ------------------------------------------------------------------------
\* Error kinds
\* ------------------------------------------------------------------------
\* The step failed for one of the causes the controller names in its message:
\* access denied, missing acknowledge, error response, handshake exhausted.
NamedFailure(e) ==
    e.err.what \in {AccessError.what, AckError.what, ErrorResponse.what, InitError.what}

\* connect() has just returned from a lock timeout.
LockTimedOut(e, st) == e.op = "connect" /\ e.s \in DOMAIN st /\ st[e.s] = "timeout"

\* C15: failures of different kinds are reported with different error types
\* (two consecutive failing operations with different causes raise errors of
\* different types), and a lock timeout is reported as an error.
C15_ErrorKindsDistinct ==
    [][ /\ (NamedFailure(last) /\ NamedFailure(last') /\ last.err.what # last'.err.what)
            => last.err.type # last'.err.type
        /\ LockTimedOut(last', start') => last'.err # NoErr ]_vars

\* ------------------------------------------------------------------------
\* Telegram framer (SpecTelegram)
\* ------------------------------------------------------------------------
Built == last.op = "telegram"
Parsed == last.op = "from_bytes"

\* C16: a telegram built for a command, mode and payload is START(41), LEN,
\* TYPE, MODE, ADDR(2), VALLEN, payload, CHECKSUM with LEN = 2 + 3 +
\* len(payload), size 8 + len(payload) and CHECKSUM = sum of the bytes after
\* START and before the checksum, mod 256; READ of Warmwassertemperatur is
\* 41050001010d0216 and READ of Anlagentyp is 4105000100f80402.
C16_TelegramLayout ==
    Built =>
        LET vc == last.arg[1]
            access_mode == last.arg[2]
            tType == last.arg[3]
            payload == last.arg[4]
            t == last.ret
            n == Len(payload)
        IN  /\ Len(t) = 8 + n
            /\ t[1] = 65
            /\ t[2] = 2 + 3 + n
            /\ <<t[3]>> = tTypes[tType]
            /\ <<t[4]>> = tModes[access_mode]
            /\ <<t[5], t[6]>> = vc.address
            /\ t[7] = vc.value_bytes
            /\ SubSeq(t, 8, 7 + n) = payload
            /\ t[8 + n] = SumSeq(SubSeq(t, 2, 7 + n)) % 256
            /\ (vc.command_name = "Warmwassertemperatur" /\ access_mode = READ
                 /\ tType = "request" /\ payload = <<>>)
                    => t = <<65, 5, 0, 1, 1, 13, 2, 22>>
            /\ (vc.command_name = "Anlagentyp" /\ access_mode = READ
                 /\ tType = "request" /\ payload = <<>>)
                    => t = <<65, 5, 0, 1, 0, 248, 4, 2>>

\* A write telegram with a two-byte payload whose byte sum exceeds 255.
C16_Witness ==
    /\ Built
    /\ last.arg[2] = WRITE
    /\ last.arg[4] = <<255, 255>>
    /\ Len(last.ret) = 10

\* C17: parsing the telegram built for a command, mode, type and payload
\* gives back the same payload, command, transaction type and access mode.
C17_RoundTrip ==
    (Parsed /\ last.arg[1] = ViTelegram(last.arg[2], tModes[last.arg[3]],
                                        tTypes[last.arg[4]], last.arg[5])) =>
        /\ last.err = NoErr
        /\ last.ret.payload = last.arg[5]
        /\ last.ret.vicmd = last.arg[2]
        /\ last.ret.tType = tTypes[last.arg[4]]
        /\ HasMode(last.ret.tMode)
        /\ telegram_mode(last.ret.tMode) = last.arg[3]

\* The call telegram of Energiebilanz with a payload was built and parsed back.
C17_Witness ==
    /\ Parsed
    /\ last.err = NoErr
    /\ last.arg[2].command_name = "Energiebilanz"
    /\ last.arg[3] = CALL
    /\ last.ret.payload = <<1, 65>>
    /\ last.ret.vicmd.command_name = "Energiebilanz"

\* C18: from_bytes tests the trailing checksum first and the start byte
\* second: bytes whose last byte is not the checksum of the bytes before it
\* are rejected with the checksum error, whatever the first byte; bytes that
\* pass the checksum test and do not begin with 41 are rejected with the
\* start-byte error.
C18_ChecksumThenStartbyte ==
    Parsed =>
        LET b == last.arg[1]
            checksum_ok == PyLast(b) = checksum_byte(PySlice(b, 0, -1))
        IN  /\ ~checksum_ok => last.err = ChecksumError
            /\ (checksum_ok /\ PySlice(b, 0, 1) # tStartByte) => last.err = StartbyteError

\* Bytes with both a wrong start byte and a wrong checksum were rejected for
\* the checksum.
C18_Witness ==
    /\ Parsed
    /\ Len(last.arg[1]) >= 8
    /\ last.arg[1][1] = 64
    /\ last.arg[1][Len(last.arg[1])] # 0
    /\ last.err = ChecksumError

\* C19: the checksum of an empty input and of an input that does not start
\* with 41 is the single byte 00, and nothing is raised.
C19_ChecksumZero ==
    (last.op = "checksum" /\ (last.arg[1] = <<>> \/ Head(last.arg[1]) # 65)) =>
        (last.ret = <<0>> /\ last.err = NoErr)

\* The checksum of 42 41 was computed.
C19_Witness ==
    /\ last.op = "checksum"
    /\ last.arg[1] = <<66, 65>>
    /\ last.ret = <<0>>

Looked == last.op = "getitem"

\* C21: a lookup by name returns the command of that name and fails with a
\* KeyError when there is none; a lookup by address compares the first two
\* bytes of the key only and fails when no command has them; addresses are
\* unique in the table, so the lookup of c.address returns c.
C21_Lookup ==
    /\ \A c, d \in COMMAND_SET : (c.address = d.address \/ c.command_name = d.command_name) => c = d
    /\ \A c \in COMMAND_SET : getitem(BytesKey(c.address)) = [err |-> NoErr, command |-> c]
    /\ Looked =>
         LET key == last.arg[1]
         IN  IF key.is_str
             THEN IF \E c \in COMMAND_SET : c.command_name = key.name
                  THEN last.err = NoErr /\ last.ret \in COMMAND_SET
                       /\ last.ret.command_name = key.name
                  ELSE last.err.type = "KeyError"
             ELSE IF \E c \in COMMAND_SET : c.address = PySlice(key.bytes, 0, 2)
                  THEN last.err = NoErr /\ last.ret \in COMMAND_SET
                       /\ last.ret.address = PySlice(key.bytes, 0, 2)
                  ELSE last.err.type = "KeyError"

\* A lookup by a three-byte key succeeded on its first two bytes.
C21_Witness ==
    /\ Looked
    /\ ~last.arg[1].is_str
    /\ Len(last.arg[1].bytes) = 3
    /\ last.err = NoErr
    /\ last.ret.command_name = "Anlagentyp"

DataCreated == last.op = "create"
DataRead == last.op = "value"
NumEq(a, b) == a.num * b.den = b.num * a.den

\* C22: for the kinds with both directions and every value a codec accepts,
\* the value read back from the encoded bytes is the value given, truncated
\* toward zero at the kind's resolution for the numeric kinds.
C22_CodecRoundTrip ==
    (DataRead /\ last.arg[2].form = "value" /\ last.arg[1] \in {"BA", "DT", "OO", "RT"} \cup NumKinds) =>
        LET v == last.arg[2].val
            f == NumFactor(last.arg[1])
        IN  IF last.arg[1] \in NumKinds
            THEN NumEq(last.ret, Num(Trunc(v.num * f, v.den), f))
            ELSE last.ret = v

\* C23: creating a value object fails with an error for an unknown kind,
\* for bytes of an enumerated kind whose integer is not in the kind's table,
\* for a value that is not among the kind's values, and for an energy record
\* made from a value.
C23_NoSilentValue ==
    DataCreated =>
        LET datatype == last.arg[1]
            arg == last.arg[2]
        IN  /\ datatype \notin DataTypes => last.err # NoErr
            /\ (datatype \in EnumKinds /\ arg.form = "raw"
                /\ int_from_bytes(arg.raw, EnumOrder(datatype), FALSE) \notin Keys(EnumTable(datatype)))
               => last.err # NoErr
            /\ (datatype \in EnumKinds /\ arg.form = "value"
                /\ ~(arg.val.kind = "str" /\ arg.val.str \in Values(EnumTable(datatype))))
               => last.err # NoErr
            /\ (datatype = "F_E" /\ arg.form = "value") => last.err # NoErr

\* C24: the value of a 16-byte energy payload has day = byte 1, year = 2000 +
\* byte 2, week = byte 3, the heating pair = words 0 and 1 in tenths, the
\* water pair = words 2 and 3 in tenths, the cooling pair equal to the
\* heating pair, and the two totals the sums of the three figures; byte 0 and
\* the last two words do not change it.
C24_EnergyDecode ==
    (DataRead /\ last.arg[1] = "F_E") =>
        LET d == last.arg[3]
            word(i) == d[5 + 2 * i] + 256 * d[6 + 2 * i]
            r == last.ret
        IN  /\ Len(d) = 16
            /\ r.day = d[2] /\ r.year = 2000 + d[3] /\ r.week = d[4]
            /\ r.heating_energy = Num(word(0), 10)
            /\ r.heating_electrical_energy = Num(word(1), 10)
            /\ r.water_energy = Num(word(2), 10)
            /\ r.water_electrical_energy = Num(word(3), 10)
            /\ r.cooling_energy = r.heating_energy
            /\ r.cooling_electrical_energy = r.heating_electrical_energy
            /\ r.total_energy = Num(word(0) + word(2) + word(0), 10)
            /\ r.total_electrical_energy = Num(word(1) + word(3) + word(1), 10)
            /\ \A b0 \in EnergyBytes, t \in EnergyTail :
                  value("F_E", <<b0>> \o SubSeq(d, 2, 12) \o t) = r

\* The payload of tests/test_vidata.py was decoded: day 2, week 9 of 2022,
\* heating 91.4 and 17.0, water 15.3 and 4.5.
C24_Witness ==
    /\ DataRead
    /\ last.arg[1] = "F_E"
    /\ last.arg[3] = <<2, 2, 22, 9, 146, 3, 170, 0, 153, 0, 45, 0, 0, 0, 0, 0>>
    /\ last.ret.year = 2022
    /\ last.ret.heating_energy = Num(914, 10)
    /\ last.ret.total_electrical_energy = Num(385, 10)

\* C25: for every command of the table, a value of the command's unit is
\* encoded to value_bytes bytes.
C25_ValueLength ==
    \A vc \in COMMAND_SET :
        (DataCreated /\ last.err = NoErr /\ last.arg[1] = vc.unit /\ last.arg[2].form = "value")
            => Len(last.ret) = vc.value_bytes

WasRead == last.op = "read"

\* What the port has delivered after its first k calls, the number of those
\* calls that timed out, and the bytes among them.
CallAt(stream, k) == IF k <= Len(stream) THEN stream[k] ELSE <<>>
Timeouts(stream, k) == Cardinality({ i \in 1..k : CallAt(stream, i) = <<>> })
RECURSIVE Delivered(_, _)
Delivered(stream, k) ==
    IF k = 0 THEN <<>> ELSE Delivered(stream, k - 1) \o CallAt(stream, k)

\* C27: read(n) returns after at most n + 9 reads of the port and never more
\* than n bytes; it returns the first n bytes delivered when fewer than 10
\* reads timed out before the n-th byte came, and otherwise gives up at the
\* 10th timeout, counted over the whole call, with the bytes received so far.
C27_ReadBounded ==
    WasRead =>
        LET n == last.arg[1]
            stream == last.arg[2]
            calls == last.rd
            Complete(k) == Len(Delivered(stream, k)) = n /\ Timeouts(stream, k) < MaxFailedReads
        IN  /\ calls \in 1..(n + MaxFailedReads - 1)
            /\ Len(last.ret) <= n
            /\ last.ret = Delivered(stream, calls)
            /\ IF \E k \in 1..(n + MaxFailedReads - 1) : Complete(k)
               THEN /\ Len(last.ret) = n
                    /\ Complete(calls)
                    /\ \A k \in 1..(calls - 1) : ~Complete(k)
               ELSE /\ Len(last.ret) < n
                    /\ Timeouts(stream, calls) = MaxFailedReads
                    /\ CallAt(stream, calls) = <<>>

\* A read gave up with a shorter buffer after timeouts that were not in a row.
C27_Witness ==
    /\ WasRead
    /\ last.arg[1] = 3
    /\ Len(last.ret) = 2
    /\ last.rd = 2 + MaxFailedReads
    /\ CallAt(last.arg[2], 1) = <<>>
    /\ CallAt(last.arg[2], 2) # <<>>
    /\ CallAt(last.arg[2], 3) = <<>>

\* ---- the request methods ----
Requested == last.op = "request"

\* The command of the request is not in the table, or the value to write is
\* one the unit's codec rejects.
BadRequest(req) ==
    \/ \A c \in COMMAND_SET : c.command_name # req.command_name
    \/ /\ req.kind = "write"
       /\ create(command_by_name(req.command_name).unit, Value(req.val)).err # NoErr

\* C28: a request that names no command of the table, or gives a value the
\* codec of the command's unit rejects, raises that error without any write
\* to or read of the port, once, and leaves is_initialized, the connection
\* and the lock as they were.
C28_RequestErrorsBeforeIO ==
    [][ (last'.op = "request" /\ BadRequest(last'.arg[1])) =>
          /\ last'.err.type \in {"KeyError", "ViDataError", "OverflowError"}
          /\ last'.wr = <<>>
          /\ last'.rd = 0
          /\ last'.io = <<>>
          /\ last'.ret = NoRet
          /\ UNCHANGED <<lock, pc, connected, serial, is_initialized>> ]_vars

\* On a connected, initialized session a write of a value outside the unit's
\* range was refused.
C28_Witness ==
    /\ Requested
    /\ connected[1] /\ serial[1] = "open" /\ is_initialized[1]
    /\ last.arg[1] = Request("write", "SolltempWarmwasser", Num(4000, 1), <<>>)
    /\ last.err = OverflowError
    /\ last.io = <<>>

\* C29: a write of a value outside the command's min_value..max_value is
\* refused before any telegram is sent.
C29_BoundsChecked ==
    (Requested /\ last.arg[1].kind = "write" /\ HasName(last.arg[1].command_name)) =>
        LET b == ValueBounds(command_by_name(last.arg[1].command_name))
            v == last.arg[1].val
        IN  (b # <<>> /\ (v.num < b[1] * v.den \/ v.num > b[2] * v.den)) =>
                (last.err # NoErr /\ last.wr = <<>> /\ last.io = <<>>)

\* ---- waiting for the lock ----
\* C30: a session waiting in connect() gets the lock when it is free and
\* then opens the port, and returns unconnected when the lock stays held
\* until its timeout; every wait ends: the attempt either connects or fails.
C30_WaiterProgress ==
    /\ [][ \A s \in LiveSessions :
             /\ (pc[s] = "acquire" /\ pc'[s] # "acquire") =>
                   IF lock = 0
                   THEN lock' = s /\ pc'[s] = "open"
                   ELSE lock' = lock /\ pc'[s] = "live" /\ start'[s] = "timeout"
                        /\ connected'[s] = connected[s]
             /\ (pc[s] = "open" /\ pc'[s] # "open") =>
                   \/ start'[s] = "connected" /\ connected'[s]
                   \/ start'[s] = "openfail" ]_vars
    /\ \A s \in LiveSessions :
          (pc[s] \in {"acquire", "open"}) ~> (pc[s] \in {"live", "failed"})

\* The first session connected and released the lock, and the second one
\* connected after it.
C30_Witness ==
    /\ start[1] = "connected"
    /\ ~connected[1]
    /\ serial[1] = "none"
    /\ lock = 2
    /\ connected[2]
    /\ start[2] = "connected"

\* ---- the lock and the connection ----
\* The session is inside connect(), between Lock.acquire and its return.
Connecting(s) == pc[s] \in {"acquire", "open"}

\* C31: a packet is written only by a connected session, and a session that
\* writes holds the lock.
C31_WritesHoldLock ==
    (last.wr # <<>> /\ last.op \in ControlOps) =>
        (connected[last.s] /\ lock = last.s)

\* C32: connect() on a connected session returns at once: it does not wait
\* for the lock, and the lock, the port, the connection and the READY flag
\* stay as they are.
C32_ConnectIdempotent ==
    [][ \A s \in Sess :
          (connected[s] /\ pc[s] = "live" /\ last'.s = s
           /\ last'.op \in {"connect", "connect_wait"}) =>
              /\ last'.op = "connect"
              /\ last'.err = NoErr
              /\ pc'[s] = "live"
              /\ connected'[s]
              /\ UNCHANGED <<lock, serial, connected, start, is_initialized>> ]_vars

\* connect() returned on a session that was connected and READY.
C32_Witness ==
    /\ last.op = "connect"
    /\ last.s = 1
    /\ connected[1]
    /\ serial[1] = "open"
    /\ is_initialized[1]
    /\ lock = 1

\* C33: whenever no session is inside connect(), the lock is held if and
\* only if exactly one session is connected.
C33_LockIffConnected ==
    (\A s \in Sess : ~Connecting(s)) =>
        ((lock # 0) <=> (Cardinality({ s \in Sess : connected[s] }) = 1))

\* C34: disconnect() or the teardown of a session that is not connected
\* leaves the lock as it is and raises nothing.
C34_OnlyHolderReleases ==
    [][ \A s \in Sess :
          (~connected[s] /\ pc[s] \in {"live", "failed"} /\ last'.s = s
           /\ last'.op \in {"disconnect", "del"}) =>
              (lock' = lock /\ last'.err = NoErr) ]_vars

\* ---- the response to a request ----
\* The device acknowledged the request and then delivered the bytes resp.
Answered == Requested /\ last.arg[2] = <<ACKNOWLEDGE>>

\* C35: the value returned for a request comes from a response frame with
\* the address of the command requested, and has that command's unit.
C35_ValueOfRequestedCommand ==
    (Requested /\ last.err = NoErr) =>
        LET vc == command_by_name(last.arg[1].command_name)
        IN  /\ PySlice(last.arg[3], 4, 6) = vc.address
            /\ last.ret.unit = vc.unit

\* C36: when the device delivers fewer bytes than the response length of
\* the request, the execution fails: no value is returned and ACKNOWLEDGE
\* is not written.
C36_ShortResponseRejected ==
    Answered =>
        LET vc == command_by_name(last.arg[1].command_name)
        IN  Len(last.arg[3]) < response_length(vc, tModes[RequestMode(last.arg[1])]) =>
                /\ last.err # NoErr
                /\ last.ret = NoRet
                /\ \A i \in 1..Len(last.wr) : last.wr[i] # ACKNOWLEDGE

\* ---- bytes that are no telegram ----
ParsedAny == last.op \in {"from_bytes", "from_bytes_packet"}

\* C37: from_bytes of an empty sequence, or of one whose first byte is not
\* 41, returns no telegram: it raises the checksum error or the start-byte
\* error, whatever the other bytes are.
C37_NoTelegramWithoutStartByte ==
    (ParsedAny /\ (last.arg[1] = <<>> \/ Head(last.arg[1]) # 65)) =>
        last.err \in {ChecksumError, StartbyteError}

\* The single byte 00 passed the checksum test and was refused for its
\* start byte.
C37_Witness ==
    /\ last.op = "from_bytes_packet"
    /\ last.arg[1] = <<0>>
    /\ last.err = StartbyteError

\* ---- the READY flag ----
\* C38: is_initialized is false until a handshake has run, becomes false
\* when a handshake starts, becomes true only when a handshake ends by
\* reading ACKNOWLEDGE, and is changed by nothing else; so it is true
\* exactly when the latest handshake read ACKNOWLEDGE.
C38_ReadyFlag ==
    /\ \A s \in Sess : ~is_initialized[s]
    /\ [][ \A s \in Sess :
             /\ is_initialized'[s] = ackSeen'[s]
             /\ (last'.s = s /\ last'.op = "init_start") => ~is_initialized'[s]
             /\ (is_initialized'[s] # is_initialized[s]) =>
                   /\ last'.s = s
                   /\ \/ last'.op = "init_start" /\ ~is_initialized'[s]
                      \/ last'.op = "init" /\ last'.err = NoErr /\ is_initialized'[s] ]_vars

\* A READY session ran a command that failed, and is still READY.
C38_Witness ==
    /\ last.op = "execute"
    /\ last.s = 1
    /\ last.err = AckErrorOf(ERROR)
    /\ is_initialized[1]
    /\ ackSeen[1]

====
